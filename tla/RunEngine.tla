------------------------------ MODULE RunEngine ------------------------------
(***************************************************************************)
(* The execution of runs: the runs, steps, step_batches and jobs tables,   *)
(* and the goroutines and HTTP handlers that change them concurrently:     *)
(*                                                                         *)
(*   - the worker pool          internal/worker/pool.go, handlers.go       *)
(*   - the supervisor           Pool.Run -> Store.RequeueOrphans           *)
(*   - the dispatcher           dispatchLoop, cmd/squishy/main.go          *)
(*   - the run-state watcher    runStateLoop, cmd/squishy/main.go          *)
(*   - startRun, cancelRun, retryRun, play*, replay*   internal/httpapi    *)
(*                                                                         *)
(* An action is one SQL statement, or one transaction where the code opens *)
(* one; what a goroutine read earlier is in its own variable.  The jobs    *)
(* table is that of module JobQueue, whose operations are used as they     *)
(* are.                                                                    *)
(*                                                                         *)
(* A step_batches row is inserted, with its job, by one transaction, and   *)
(* deleted with it by another, so that batch[j] is the batch row of job j. *)
(* Its status is only ever written to 'succeeded'.                         *)
(*                                                                         *)
(* Operators named Bug... are wrong forms of the definition after them;    *)
(* see JobQueue.                                                           *)
(***************************************************************************)
EXTENDS Naturals, FiniteSets

CONSTANTS
    Jobs, Workers, MaxAttempts, NoJob, Nobody,   \* see JobQueue
    Runs,          \* the runs of one migration
    Steps,         \* the steps of all runs
    NoStep,        \* the step of a job that was never inserted
    RunOf,         \* steps.run_id
    Deps,          \* steps.depends_on
    Level,         \* steps.level
    NBatches,      \* the ranges a copy_table step expands into; 0: not batched
    Faulty,        \* steps whose handlers may return an error
    MayOutlive,    \* whether a handler may run longer than the orphan TTL
    Lossy,         \* statements that may fail where the pool ignores the error
    Modes,         \* dispatch modes startRun is called with
    Operations,    \* API operations that are called
    MaxCalls,      \* bound on the number of API calls
    MaxCrashes     \* bound on the number of process crashes or shutdowns

ASSUME QueueAssumption ==
    MaxAttempts \in Nat \ {0} /\ NoJob \notin Jobs /\ Nobody \notin Workers
ASSUME StepAssumption ==
    /\ NoStep \notin Steps
    /\ RunOf \in [Steps -> Runs]
    /\ Deps \in [Steps -> SUBSET Steps]
    /\ Level \in [Steps -> Nat]
    /\ NBatches \in [Steps -> Nat]
    /\ \A s \in Steps, d \in Steps :
          d \in Deps[s] => RunOf[d] = RunOf[s] /\ Level[d] < Level[s]
ASSUME LossyAssumption ==
    Lossy \subseteq {"start", "batchDone", "succeed", "hasBatches", "count", "finish",
                     "fail", "failStep"}
ASSUME ModeAssumption == Modes \subseteq {"auto", "manual"}
ASSUME OperationAssumption ==
    Operations \subseteq {"cancel", "retry", "play", "replay"}
ASSUME BoundAssumption == MaxCalls \in Nat /\ MaxCrashes \in Nat

VARIABLES
    jobStatus, attempts, lockedBy, backoff, expired, held, stale,  \* JobQueue
    jobStep,       \* jobs.step_id
    batch,         \* the status of the job's batch row; "none": batch_id IS NULL
    runStatus,     \* runs.status
    stepStatus,    \* steps.status
    unlocked,      \* steps.unlocked
    pc,            \* the statement a worker executes next
    task,          \* the *queue.Job a worker is handling
    ready,         \* the dispatcher's slice of steps still to enqueue
    watched,       \* the watcher's slice of runs still to examine
    verdict,       \* what the watcher is about to write, at most one pair
    calls,         \* API calls between two of their statements
    callsMade,
    crashes

Q == INSTANCE JobQueue WITH status <- jobStatus

R == INSTANCE MigrationRun

queueVars == <<jobStatus, attempts, lockedBy, backoff, expired, held, stale>>
jobVars == <<jobStep, batch>>
tableVars == <<runStatus, stepStatus, unlocked>>
workerVars == <<pc, task>>
loopVars == <<ready, watched, verdict>>
envVars == <<calls, callsMade, crashes>>
vars == <<queueVars, jobVars, tableVars, workerVars, loopVars, envVars>>

RunStatuses == {"none", "running", "succeeded", "failed", "cancelled"}
StepStatuses == {"none", "pending", "running", "succeeded", "failed"}

\* The statements of Pool.handle, in the order of the code.
Statements == {"idle", "start", "exec", "batchDone", "succeed", "hasBatches",
               "count", "finish", "fail", "failStep"}

Calls == [op : {"cancel", "retry"}, run : Runs, next : {2, 3}]

TypeOK ==
    /\ Q!TypeOK
    /\ jobStep \in [Jobs -> Steps \cup {NoStep}]
    /\ batch \in [Jobs -> {"none", "pending", "succeeded"}]
    /\ runStatus \in [Runs -> RunStatuses]
    /\ stepStatus \in [Steps -> StepStatuses]
    /\ unlocked \in [Steps -> BOOLEAN]
    /\ pc \in [Workers -> Statements]
    /\ task \in [Workers -> Jobs \cup {NoJob}]
    /\ ready \in SUBSET Steps
    /\ watched \in SUBSET Runs
    /\ verdict \in SUBSET (Runs \X {"succeeded", "failed"})
    /\ calls \in SUBSET Calls
    /\ callsMade \in Nat
    /\ crashes \in Nat

Init ==
    /\ Q!Init
    /\ jobStep = [j \in Jobs |-> NoStep]
    /\ batch = [j \in Jobs |-> "none"]
    /\ runStatus = [r \in Runs |-> "none"]
    /\ stepStatus = [s \in Steps |-> "none"]
    /\ unlocked = [s \in Steps |-> FALSE]
    /\ pc = [w \in Workers |-> "idle"]
    /\ task = [w \in Workers |-> NoJob]
    /\ ready = {} /\ watched = {} /\ verdict = {}
    /\ calls = {} /\ callsMade = 0 /\ crashes = 0

-----------------------------------------------------------------------------
(* Queries over the tables.                                                *)

StepsOf(r) == {s \in Steps : RunOf[s] = r}
JobsOf(S) == {j \in Jobs : Q!Exists(j) /\ jobStep[j] \in S}
BatchesOf(s) == {j \in JobsOf({s}) : batch[j] # "none"}

\* Jobs with batch_id NULL: the job the dispatcher (or startRun) inserted.
StepJobs(s) == JobsOf({s}) \ BatchesOf(s)

HasStatus(S, statuses) == {j \in S : jobStatus[j] \in statuses}

DepsSucceeded(s) == \A d \in Deps[s] : stepStatus[d] = "succeeded"

\* The partial unique index uq_runs_one_active_per_migration.
OtherActive(r) == \E o \in Runs \ {r} : runStatus[o] = "running"

\* Ids no job was ever inserted with.
FreeIds == {j \in Jobs : jobStatus[j] = "none"}

\* The ways to give new ids to the members of a finite set.
Namings(S) == {f \in [S -> FreeIds] : \A a, b \in S : f[a] = f[b] => a = b}

\* Inserts, in one transaction, a job of step owner[a] for each a in the domain
\* of owner, with a batch row in the given status.  Which ids they get does not
\* matter.
InsertJobs(owner, batchStatus) ==
    LET S == DOMAIN owner
        id == CHOOSE f \in Namings(S) : TRUE
        new == {id[a] : a \in S}
    IN
    /\ Namings(S) # {}
    /\ Q!Enqueue(new)
    /\ jobStep' = [j \in Jobs |-> IF j \in new
                                    THEN owner[CHOOSE a \in S : id[a] = j]
                                    ELSE jobStep[j]]
    /\ batch' = [j \in Jobs |-> IF j \in new THEN batchStatus ELSE batch[j]]

\* Inserts the job of each step of S.
InsertStepJobs(S) == InsertJobs([s \in S |-> s], "none")

-----------------------------------------------------------------------------
(* The HTTP handlers of internal/httpapi/runs.go.                          *)

\* startRun: the run, its steps and, in auto mode, the jobs of the steps
\* without dependencies, in one transaction.
StartRun(r, mode) ==
    /\ runStatus[r] = "none"
    /\ ~OtherActive(r)
    /\ runStatus' = [runStatus EXCEPT ![r] = "running"]
    /\ stepStatus' = [s \in Steps |-> IF RunOf[s] = r THEN "pending" ELSE stepStatus[s]]
    /\ unlocked' = [s \in Steps |-> IF RunOf[s] = r THEN mode = "auto" ELSE unlocked[s]]
    /\ InsertStepJobs({s \in StepsOf(r) : mode = "auto" /\ Deps[s] = {}})
    /\ UNCHANGED <<workerVars, loopVars, envVars>>

\* A call is accepted: the operation is one that is called, within the bound.
Called(op) ==
    /\ op \in Operations
    /\ callsMade < MaxCalls
    /\ callsMade' = callsMade + 1

\* cancelRun, first statement: whatever the run's status is.
CancelRun(r) ==
    /\ runStatus[r] # "none"
    /\ Called("cancel")
    /\ runStatus' = [runStatus EXCEPT ![r] = "cancelled"]
    /\ calls' = calls \cup {[op |-> "cancel", run |-> r, next |-> 2]}
    /\ UNCHANGED <<queueVars, jobVars, stepStatus, unlocked, workerVars, loopVars, crashes>>

\* cancelRun, second statement: kill the run's jobs; its steps stay as they are.
CancelJobs(c) ==
    /\ c \in calls /\ c.op = "cancel"
    /\ Q!Kill(HasStatus(JobsOf(StepsOf(c.run)), {"pending", "running"}))
    /\ calls' = calls \ {c}
    /\ UNCHANGED <<jobVars, tableVars, workerVars, loopVars, callsMade, crashes>>

\* retryRun, first statement (Store.Retry).  Its second UPDATE, on batches in
\* status failed or running, finds none: no code writes those.
RetryJobs(r) ==
    /\ runStatus[r] # "none"
    /\ Called("retry")
    /\ Q!Reset(HasStatus(JobsOf(StepsOf(r)), {"dead", "running"}))
    /\ calls' = calls \cup {[op |-> "retry", run |-> r, next |-> 2]}
    /\ UNCHANGED <<jobVars, tableVars, workerVars, loopVars, crashes>>

\* retryRun: the steps.
RetrySteps(c) ==
    /\ c \in calls /\ c.op = "retry" /\ c.next = 2
    /\ stepStatus' = [s \in Steps |->
          IF RunOf[s] = c.run /\ stepStatus[s] \in {"failed", "running"}
            THEN "pending" ELSE stepStatus[s]]
    /\ calls' = (calls \ {c}) \cup {[c EXCEPT !.next = 3]}
    /\ UNCHANGED <<queueVars, jobVars, runStatus, unlocked, workerVars, loopVars,
                   callsMade, crashes>>

\* retryRun: the run, unless another run of the migration is active: then the
\* unique index makes the statement fail, and what came before it stays done.
RetryRun(c) ==
    /\ c \in calls /\ c.op = "retry" /\ c.next = 3
    /\ runStatus' = IF OtherActive(c.run) THEN runStatus
                    ELSE [runStatus EXCEPT ![c.run] = "running"]
    /\ calls' = calls \ {c}
    /\ UNCHANGED <<queueVars, jobVars, stepStatus, unlocked, workerVars, loopVars,
                   callsMade, crashes>>

\* The transactions of play and replay reopen the run, or roll back.
Reopen(r) ==
    /\ runStatus[r] = "running" \/ ~OtherActive(r)
    /\ runStatus' = [runStatus EXCEPT ![r] = "running"]

LevelSteps(r, l) == {s \in StepsOf(r) : Level[s] = l}

\* playLevel and playStep, on the steps P of run r: one transaction.
PlaySteps(r, P) ==
    /\ Called("play")
    /\ Reopen(r)
    /\ unlocked' = [s \in Steps |-> s \in P \/ unlocked[s]]
    /\ stepStatus' = [s \in Steps |->
          IF s \in P /\ stepStatus[s] = "failed" THEN "pending" ELSE stepStatus[s]]
    /\ Q!Reset(HasStatus(JobsOf(P), {"pending", "dead", "running"}))
    /\ UNCHANGED <<jobVars, workerVars, loopVars, calls, crashes>>

PlayStep(s) == runStatus[RunOf[s]] # "none" /\ PlaySteps(RunOf[s], {s})
PlayLevel(r, l) == runStatus[r] # "none" /\ PlaySteps(r, LevelSteps(r, l))

BugReplayKeepsStatus(r, P) ==
    /\ Called("replay")
    /\ Reopen(r)
    /\ Q!Delete(JobsOf(P))
    /\ unlocked' = [s \in Steps |-> s \in P \/ unlocked[s]]
    /\ UNCHANGED <<stepStatus, jobVars, workerVars, loopVars, calls, crashes>>

\* replayLevel and replayStep, on the steps P of run r: one transaction that
\* deletes jobs and batches and starts the steps afresh.
ReplaySteps(r, P) ==
    /\ Called("replay")
    /\ Reopen(r)
    /\ Q!Delete(JobsOf(P))
    /\ stepStatus' = [s \in Steps |-> IF s \in P THEN "pending" ELSE stepStatus[s]]
    /\ unlocked' = [s \in Steps |-> s \in P \/ unlocked[s]]
    /\ UNCHANGED <<jobVars, workerVars, loopVars, calls, crashes>>

\* The recursive query of replayStep: s and all that depends on it.
Descendants(s) ==
    {t \in Steps : \A S \in SUBSET Steps :
        s \in S /\ (\A u \in Steps : Deps[u] \cap S # {} => u \in S) => t \in S}

ReplayStep(s) == runStatus[RunOf[s]] # "none" /\ ReplaySteps(RunOf[s], Descendants(s))
ReplayLevel(r, l) ==
    runStatus[r] # "none" /\ ReplaySteps(r, {s \in StepsOf(r) : Level[s] >= l})

-----------------------------------------------------------------------------
(* The worker pool: Pool.workerLoop and Pool.handle.                       *)

StepOf(w) == jobStep[task[w]]
At(w, statement) == pc[w] = statement
GoTo(w, statement) == pc' = [pc EXCEPT ![w] = statement]

\* handle returns.
Return(w) ==
    /\ GoTo(w, "idle")
    /\ task' = [task EXCEPT ![w] = NoJob]

ClaimJob(w, j) ==
    /\ At(w, "idle")
    /\ Q!Claim(w, j)
    /\ GoTo(w, "start")
    /\ task' = [task EXCEPT ![w] = j]
    /\ UNCHANGED <<jobVars, tableVars, loopVars, envVars>>

\* The step shows as running from its first job on.
StartStep(w) ==
    /\ At(w, "start")
    /\ stepStatus' = [stepStatus EXCEPT ![StepOf(w)] = IF @ = "pending" THEN "running" ELSE @]
    /\ GoTo(w, "exec")
    /\ UNCHANGED <<queueVars, jobVars, runStatus, unlocked, task, loopVars, envVars>>

IsCopyTable(j) == batch[j] = "none" /\ NBatches[jobStep[j]] > 0

\* A handler that only works on the source and the target: every handler but
\* hCopyTable.  A copy_batch goes on to record its batch.
ExecHandler(w) ==
    /\ At(w, "exec")
    /\ ~IsCopyTable(task[w])
    /\ GoTo(w, IF batch[task[w]] = "none" THEN "succeed" ELSE "batchDone")
    /\ UNCHANGED <<queueVars, jobVars, tableVars, task, loopVars, envVars>>

\* hCopyTable's transaction: one batch row and one copy_batch job per range.
\* INSERT ... ON CONFLICT DO NOTHING skips a batch row that is already there,
\* and then the job, which refers to the id of the row that was not inserted,
\* violates the foreign key jobs.batch_id and the transaction fails.
ExecCopyTable(w) ==
    LET s == StepOf(w) IN
    /\ At(w, "exec")
    /\ IsCopyTable(task[w])
    /\ IF BatchesOf(s) = {}
         THEN /\ InsertJobs([i \in 1..NBatches[s] |-> s], "pending")
              /\ GoTo(w, "succeed")
         ELSE /\ GoTo(w, "fail")
              /\ UNCHANGED <<queueVars, jobVars>>
    /\ UNCHANGED <<tableVars, task, loopVars, envVars>>

\* A handler that returns an error (a copy_table before its transaction).
ExecError(w) ==
    /\ At(w, "exec")
    /\ StepOf(w) \in Faulty
    /\ GoTo(w, "fail")
    /\ UNCHANGED <<queueVars, jobVars, tableVars, task, loopVars, envVars>>

\* hCopyBatch records its batch, if the row is still there.
BatchDone(w) ==
    /\ At(w, "batchDone")
    /\ batch' = [batch EXCEPT ![task[w]] = "succeeded"]
    /\ GoTo(w, "succeed")
    /\ UNCHANGED <<queueVars, jobStep, tableVars, task, loopVars, envVars>>

BugSucceedKeepsLock(w) ==
    /\ At(w, "succeed")
    /\ jobStatus' = [jobStatus EXCEPT ![held[w]] = "succeeded"]
    /\ held' = [held EXCEPT ![w] = NoJob]
    /\ GoTo(w, "hasBatches")
    /\ UNCHANGED <<attempts, lockedBy, backoff, expired, stale>>
    /\ UNCHANGED <<jobVars, tableVars, task, loopVars, envVars>>

SucceedJob(w) ==
    /\ At(w, "succeed")
    /\ Q!Succeed(w)
    /\ GoTo(w, "hasBatches")
    /\ UNCHANGED <<jobVars, tableVars, task, loopVars, envVars>>

\* maybeFinalizeStep, first query.
HasBatches(w) ==
    /\ At(w, "hasBatches")
    /\ GoTo(w, IF BatchesOf(StepOf(w)) = {} THEN "finish" ELSE "count")
    /\ UNCHANGED <<queueVars, jobVars, tableVars, task, loopVars, envVars>>

BugCountJobsOnly(s) == HasStatus(JobsOf({s}), {"pending", "running"})

\* Batches not succeeded plus jobs pending or running; a dead job is neither,
\* its batch is.
Unfinished(s) ==
    {j \in BatchesOf(s) : batch[j] # "succeeded"}
        \cup HasStatus(JobsOf({s}), {"pending", "running"})

\* maybeFinalizeStep, second query.
CountUnfinished(w) ==
    /\ At(w, "count")
    /\ IF Unfinished(StepOf(w)) = {}
         THEN GoTo(w, "finish") /\ UNCHANGED task
         ELSE Return(w)
    /\ UNCHANGED <<queueVars, jobVars, tableVars, loopVars, envVars>>

\* maybeFinalizeStep, the update: from any status.
FinishStep(w) ==
    /\ At(w, "finish")
    /\ stepStatus' = [stepStatus EXCEPT ![StepOf(w)] = "succeeded"]
    /\ Return(w)
    /\ UNCHANGED <<queueVars, jobVars, runStatus, unlocked, loopVars, envVars>>

FailJob(w) ==
    /\ At(w, "fail")
    /\ Q!Fail(w)
    /\ GoTo(w, "failStep")
    /\ UNCHANGED <<jobVars, tableVars, task, loopVars, envVars>>

BugForgetFailStep(w) ==
    /\ At(w, "failStep")
    /\ Return(w)
    /\ UNCHANGED <<queueVars, jobVars, tableVars, loopVars, envVars>>

BugFailStepAtOnce(w) ==
    /\ At(w, "failStep")
    /\ stepStatus' = [stepStatus EXCEPT ![StepOf(w)] = "failed"]
    /\ Return(w)
    /\ UNCHANGED <<queueVars, jobVars, runStatus, unlocked, loopVars, envVars>>

\* The step fails when any job of it is dead: from any status.
FailStep(w) ==
    /\ At(w, "failStep")
    /\ stepStatus' = [stepStatus EXCEPT ![StepOf(w)] =
          IF HasStatus(JobsOf({StepOf(w)}), {"dead"}) # {} THEN "failed" ELSE @]
    /\ Return(w)
    /\ UNCHANGED <<queueVars, jobVars, runStatus, unlocked, loopVars, envVars>>

\* A statement whose error is dropped or only logged fails, and handle goes on
\* to the next one.
LoseStatement(w) ==
    /\ pc[w] \in Lossy
    /\ CASE pc[w] = "start" -> GoTo(w, "exec") /\ UNCHANGED task
         [] pc[w] = "batchDone" -> GoTo(w, "succeed") /\ UNCHANGED task
         [] pc[w] = "succeed" -> GoTo(w, "hasBatches") /\ UNCHANGED task
         [] pc[w] = "fail" -> GoTo(w, "failStep") /\ UNCHANGED task
         [] OTHER -> Return(w)
    /\ IF pc[w] \in {"succeed", "fail"} THEN Q!Abandon({w}) ELSE UNCHANGED queueVars
    /\ UNCHANGED <<jobVars, tableVars, loopVars, envVars>>

-----------------------------------------------------------------------------
(* The supervisor of the pool: Store.RequeueOrphans.                       *)

RequeueOrphans ==
    /\ Q!RequeueOrphans
    /\ UNCHANGED <<jobVars, tableVars, workerVars, loopVars, envVars>>

\* Its second statement, which runs whether or not the first found an orphan:
\* the steps of dead jobs, except batch jobs.
Condemned ==
    {s \in Steps : /\ HasStatus(StepJobs(s), {"dead"}) # {}
                   /\ stepStatus[s] \notin {"succeeded", "failed"}}

FailOrphanedSteps ==
    /\ Condemned # {}
    /\ stepStatus' = [s \in Steps |-> IF s \in Condemned THEN "failed" ELSE stepStatus[s]]
    /\ UNCHANGED <<queueVars, jobVars, runStatus, unlocked, workerVars, loopVars, envVars>>

-----------------------------------------------------------------------------
(* dispatchLoop.                                                           *)

BugDispatchTwice(s) == stepStatus[s] = "pending" /\ unlocked[s] /\ DepsSucceeded(s)

BugDispatchEarly(s) == stepStatus[s] = "pending" /\ unlocked[s] /\ StepJobs(s) = {}

Dispatchable(s) ==
    /\ stepStatus[s] = "pending"
    /\ unlocked[s]
    /\ DepsSucceeded(s)
    /\ StepJobs(s) = {}

\* The query, whatever the status of the run.
DispatchSelect ==
    /\ ready = {}
    /\ ready' = {s \in Steps : Dispatchable(s)}
    /\ ready' # {}
    /\ UNCHANGED <<queueVars, jobVars, tableVars, workerVars, watched, verdict, envVars>>

\* One Enqueue per row of the result.
DispatchEnqueue(s) ==
    /\ s \in ready
    /\ InsertStepJobs({s})
    /\ ready' = ready \ {s}
    /\ UNCHANGED <<tableVars, workerVars, watched, verdict, envVars>>

-----------------------------------------------------------------------------
(* runStateLoop.                                                           *)

WatchSelect ==
    /\ watched = {} /\ verdict = {}
    /\ watched' = {r \in Runs : runStatus[r] = "running"}
    /\ watched' # {}
    /\ UNCHANGED <<queueVars, jobVars, tableVars, workerVars, ready, verdict, envVars>>

AllSucceeded(r) == \A s \in StepsOf(r) : stepStatus[s] = "succeeded"

BugWaitForAll(r) ==
    /\ \E s \in StepsOf(r) : stepStatus[s] = "failed"
    /\ \A s \in StepsOf(r) : stepStatus[s] \in {"succeeded", "failed"}

\* A failed step, none running, and no pending step whose dependencies have
\* all succeeded (locked or not).
NoProgress(r) ==
    /\ \E s \in StepsOf(r) : stepStatus[s] = "failed"
    /\ \A s \in StepsOf(r) : stepStatus[s] # "running"
    /\ \A s \in StepsOf(r) : stepStatus[s] = "pending" => ~DepsSucceeded(s)

BugCountFailedAsDone(r) ==
    /\ r \in watched /\ verdict = {}
    /\ watched' = watched \ {r}
    /\ verdict' = IF \A s \in StepsOf(r) : stepStatus[s] \in {"succeeded", "failed"}
                    THEN {<<r, "succeeded">>}
                    ELSE IF NoProgress(r) THEN {<<r, "failed">>} ELSE {}
    /\ UNCHANGED <<queueVars, jobVars, tableVars, workerVars, ready, envVars>>

\* The query on the steps of one run; a run without any is passed over.
WatchCount(r) ==
    /\ r \in watched /\ verdict = {}
    /\ watched' = watched \ {r}
    /\ verdict' = IF AllSucceeded(r) /\ StepsOf(r) # {} THEN {<<r, "succeeded">>}
                  ELSE IF NoProgress(r) THEN {<<r, "failed">>}
                  ELSE {}
    /\ UNCHANGED <<queueVars, jobVars, tableVars, workerVars, ready, envVars>>

\* The update, by id alone.
WatchWrite ==
    /\ \E v \in verdict : runStatus' = [runStatus EXCEPT ![v[1]] = v[2]]
    /\ verdict' = {}
    /\ UNCHANGED <<queueVars, jobVars, stepStatus, unlocked, workerVars, ready, watched, envVars>>

-----------------------------------------------------------------------------
(* The environment.                                                        *)

\* The process dies, or stops on a signal: every goroutine loses what it
\* remembers.  The tables stay.  It is started again at once.
Crash ==
    /\ crashes < MaxCrashes
    /\ crashes' = crashes + 1
    /\ Q!Abandon(Workers)
    /\ pc' = [w \in Workers |-> "idle"]
    /\ task' = [w \in Workers |-> NoJob]
    /\ ready' = {} /\ watched' = {} /\ verdict' = {}
    /\ calls' = {}
    /\ UNCHANGED <<jobVars, tableVars, callsMade>>

BackoffElapses(j) ==
    /\ Q!BackoffElapses(j)
    /\ UNCHANGED <<jobVars, tableVars, workerVars, loopVars, envVars>>

\* The lock of a job in progress outlives the TTL only if its handler does.
LockExpires(j) ==
    /\ MayOutlive \/ Q!Holders({j}) = {}
    /\ Q!LockExpires(j)
    /\ UNCHANGED <<jobVars, tableVars, workerVars, loopVars, envVars>>

-----------------------------------------------------------------------------
Levels == {Level[s] : s \in Steps}

Api ==
    \/ \E r \in Runs : CancelRun(r) \/ RetryJobs(r)
    \/ \E c \in calls : CancelJobs(c) \/ RetrySteps(c) \/ RetryRun(c)
    \/ \E s \in Steps : PlayStep(s) \/ ReplayStep(s)
    \/ \E r \in Runs, l \in Levels : PlayLevel(r, l) \/ ReplayLevel(r, l)

Handle(w) ==
    \/ StartStep(w) \/ ExecHandler(w) \/ ExecCopyTable(w) \/ ExecError(w)
    \/ BatchDone(w) \/ SucceedJob(w) \/ HasBatches(w) \/ CountUnfinished(w)
    \/ FinishStep(w) \/ FailJob(w) \/ FailStep(w) \/ LoseStatement(w)

Dispatch == DispatchSelect \/ \E s \in Steps : DispatchEnqueue(s)
Watch == WatchSelect \/ (\E r \in Runs : WatchCount(r)) \/ WatchWrite

Next ==
    \/ \E r \in Runs, mode \in Modes : StartRun(r, mode)
    \/ Api
    \/ \E w \in Workers, j \in Jobs : ClaimJob(w, j)
    \/ \E w \in Workers : Handle(w)
    \/ RequeueOrphans \/ FailOrphanedSteps
    \/ Dispatch \/ Watch
    \/ Crash
    \/ \E j \in Jobs : BackoffElapses(j) \/ LockExpires(j)

Spec == Init /\ [][Next]_vars
(***************************************************************************)
(* Fairness: the goroutines of main and Pool.Run loop for ever, handlers   *)
(* return, an HTTP handler that has begun finishes, time passes.  Nothing  *)
(* is assumed of callers, crashes, handler errors or lost statements: they *)
(* may happen or not.                                                      *)
(***************************************************************************)
Fairness ==
    /\ WF_vars(\E w \in Workers, j \in Jobs : ClaimJob(w, j))
    /\ \A w \in Workers : WF_vars(Handle(w))
    /\ WF_vars(RequeueOrphans) /\ WF_vars(FailOrphanedSteps)
    /\ WF_vars(Dispatch) /\ WF_vars(Watch)
    /\ WF_vars(\E c \in calls : CancelJobs(c) \/ RetrySteps(c) \/ RetryRun(c))
    /\ \A j \in Jobs : WF_vars(BackoffElapses(j)) /\ WF_vars(LockExpires(j))

FairSpec == Spec /\ Fairness

-----------------------------------------------------------------------------
(* Properties.                                                             *)

\* The jobs table, driven by all of these processes, behaves as JobQueue.
QueueSpec == Q!Spec

\* What a user sees of runs and steps is what MigrationRun promises: nothing
\* happens out of turn, twice, or after the end of a run, although each status
\* is written by id alone, on what an earlier statement read.
RunSpec == R!Spec

\* A step never has two jobs of its own: the dispatcher tests NOT EXISTS in
\* one statement and inserts in a later one, with retries, replays, crashes
\* and startRun's own inserts in between.
SingleDispatch == \A s \in Steps : \A j, k \in StepJobs(s) : j = k

\* A copy_table step is succeeded only with every batch of it copied,
\* whichever of its jobs came last, died, ran twice or was reset.
NoBatchLeftBehind ==
    \A s \in Steps :
        stepStatus[s] = "succeeded" /\ NBatches[s] > 0 =>
            /\ Cardinality(BatchesOf(s)) = NBatches[s]
            /\ \A j \in BatchesOf(s) : batch[j] = "succeeded"

\* No handler works for a step before the steps it depends on have succeeded.
DependencyOrder ==
    \A w \in Workers : pc[w] = "exec" => DepsSucceeded(StepOf(w))

\* "A run is `succeeded` when every step is succeeded."
SucceededRunIsComplete ==
    \A r \in Runs : runStatus[r] = "succeeded" => AllSucceeded(r)

\* A step that shows as running in a running run is being worked on, or has a
\* job that will be: otherwise nothing ever ends it, and the watcher waits for
\* it for ever.
RunningStepHasWork ==
    \A s \in Steps :
        stepStatus[s] = "running" /\ runStatus[RunOf[s]] = "running" =>
            \/ HasStatus(JobsOf({s}), {"pending", "running"}) # {}
            \/ \E w \in Workers : task[w] # NoJob /\ StepOf(w) = s

\* A run that was started comes to an end: each of its steps is dispatched
\* in its turn, retried as often as it may be, and rolled up, and the watcher
\* sees it.
RunTerminates ==
    \A r \in Runs : runStatus[r] = "running" ~> runStatus[r] # "running"

-----------------------------------------------------------------------------
(* What comments and docs of the repository say, and the code does not do. *)

\* store.go, RequeueOrphans: "Batched steps (copy_table) finalize via the
\* regular step-rollup path."  A step with a dead batch job ends.
DeadBatchEndsStep ==
    \A s \in Steps :
        HasStatus(BatchesOf(s), {"dead"}) # {} ~> stepStatus[s] # "running"
=============================================================================
