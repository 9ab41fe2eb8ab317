------------------------------ MODULE JobQueue ------------------------------
(***************************************************************************)
(* The PostgreSQL job queue of squishy: table squishy.jobs as every part   *)
(* of the program changes it.  internal/queue/store.go is the queue        *)
(* itself; worker/pool.go claims and reports jobs; httpapi/runs.go resets, *)
(* kills and deletes them.                                                 *)
(*                                                                         *)
(* Every action is one SQL statement (or one transaction), because the     *)
(* program runs each of them in autocommit mode and PostgreSQL makes each  *)
(* of them atomic per row.                                                 *)
(*                                                                         *)
(* Time is abstracted to the two tests the statements make on it:          *)
(* backoff[j] is available_at > now(), expired[j] is                       *)
(* locked_at < now() - OrphanTTL.  Time may pass at any step.              *)
(*                                                                         *)
(* Claim's ORDER BY (priority, available_at, id) is abstracted to an       *)
(* arbitrary choice among the claimable rows: ids are random UUIDs.        *)
(*                                                                         *)
(* An operator named Bug... is a wrong form of the definition after it.    *)
(* The specification does not use it; putting it in the place of that      *)
(* definition must make TLC report a property as violated (README).        *)
(***************************************************************************)
EXTENDS Naturals

CONSTANTS
    Jobs,          \* the job ids (UUIDs) that can ever be inserted
    Workers,       \* the worker goroutines; also the values of locked_by
    MaxAttempts,   \* jobs.max_attempts, 3 in the program
    NoJob,         \* a worker that holds no job
    Nobody         \* locked_by IS NULL

ASSUME MaxAttemptsAssumption == MaxAttempts \in Nat \ {0}
ASSUME NoJobAssumption == NoJob \notin Jobs
ASSUME NobodyAssumption == Nobody \notin Workers

VARIABLES
    status,        \* jobs.status; "none" before INSERT, "deleted" after DELETE
    attempts,      \* jobs.attempts
    lockedBy,      \* jobs.locked_by
    backoff,       \* available_at is in the future
    expired,       \* locked_at is older than the orphan TTL
    held,          \* the job a worker has claimed and not yet reported
    stale          \* history: workers whose row was taken from them meanwhile

rows == <<status, attempts, lockedBy, backoff, expired>>
vars == <<status, attempts, lockedBy, backoff, expired, held, stale>>

\* 'failed' is a value of the job_status enum that no statement writes to jobs.
Statuses == {"none", "pending", "running", "succeeded", "dead", "deleted"}

TypeOK ==
    /\ status \in [Jobs -> Statuses]
    /\ attempts \in [Jobs -> Nat]
    /\ lockedBy \in [Jobs -> Workers \cup {Nobody}]
    /\ backoff \in [Jobs -> BOOLEAN]
    /\ expired \in [Jobs -> BOOLEAN]
    /\ held \in [Workers -> Jobs \cup {NoJob}]
    /\ stale \in SUBSET Workers

Init ==
    /\ status = [j \in Jobs |-> "none"]
    /\ attempts = [j \in Jobs |-> 0]
    /\ lockedBy = [j \in Jobs |-> Nobody]
    /\ backoff = [j \in Jobs |-> FALSE]
    /\ expired = [j \in Jobs |-> FALSE]
    /\ held = [w \in Workers |-> NoJob]
    /\ stale = {}

\* The workers that are on one of the jobs S.
Holders(S) == {w \in Workers : held[w] \in S}

\* Rows the database still has.
Exists(j) == status[j] \notin {"none", "deleted"}

Exhausted(j) == attempts[j] >= MaxAttempts

-----------------------------------------------------------------------------
(* The queue's own operations.                                             *)

\* Enqueue: INSERT with attempts 0 and available_at now().  S is what one
\* transaction inserts: one job for the dispatcher, all the batch jobs of a
\* table for hCopyTable, the root steps' jobs for startRun.
Enqueue(S) ==
    /\ \A j \in S : status[j] = "none"
    /\ status' = [j \in Jobs |-> IF j \in S THEN "pending" ELSE status[j]]
    /\ attempts' = [j \in Jobs |-> IF j \in S THEN 0 ELSE attempts[j]]
    /\ backoff' = [j \in Jobs |-> IF j \in S THEN FALSE ELSE backoff[j]]
    /\ UNCHANGED <<lockedBy, expired, held, stale>>

BugClaimRunning(w, j) ==
    /\ held[w] = NoJob
    /\ status[j] \in {"pending", "running"}
    /\ ~Exhausted(j)
    /\ status' = [status EXCEPT ![j] = "running"]
    /\ attempts' = [attempts EXCEPT ![j] = @ + 1]
    /\ lockedBy' = [lockedBy EXCEPT ![j] = w]
    /\ held' = [held EXCEPT ![w] = j]
    /\ UNCHANGED <<backoff, expired, stale>>

\* Claim: FOR UPDATE SKIP LOCKED hands a row to one worker.
Claim(w, j) ==
    /\ held[w] = NoJob
    /\ status[j] = "pending"
    /\ ~backoff[j]
    /\ ~Exhausted(j)
    /\ status' = [status EXCEPT ![j] = "running"]
    /\ attempts' = [attempts EXCEPT ![j] = @ + 1]
    /\ lockedBy' = [lockedBy EXCEPT ![j] = w]
    /\ expired' = [expired EXCEPT ![j] = FALSE]
    /\ held' = [held EXCEPT ![w] = j]
    /\ UNCHANGED <<backoff, stale>>

\* Succeed: by id alone, whatever the row has become; no row, no effect.
Succeed(w) ==
    LET j == held[w] IN
    /\ j # NoJob
    /\ held' = [held EXCEPT ![w] = NoJob]
    /\ IF Exists(j)
         THEN /\ status' = [status EXCEPT ![j] = "succeeded"]
              /\ lockedBy' = [lockedBy EXCEPT ![j] = Nobody]
              /\ expired' = [expired EXCEPT ![j] = FALSE]
         ELSE UNCHANGED <<status, lockedBy, expired>>
    /\ stale' = (stale \cup Holders({j})) \ {w}
    /\ UNCHANGED <<attempts, backoff>>

BugAlwaysRetry(j) == "pending"

\* Where Fail and RequeueOrphans send a row: CASE WHEN attempts >= max_attempts.
AfterFailure(j) == IF Exhausted(j) THEN "dead" ELSE "pending"

\* Fail: by id alone; retry with a backoff, or dead.
Fail(w) ==
    LET j == held[w] IN
    /\ j # NoJob
    /\ held' = [held EXCEPT ![w] = NoJob]
    /\ IF Exists(j)
         THEN /\ status' = [status EXCEPT ![j] = AfterFailure(j)]
              /\ backoff' = [backoff EXCEPT ![j] = IF Exhausted(j) THEN @ ELSE TRUE]
              /\ lockedBy' = [lockedBy EXCEPT ![j] = Nobody]
              /\ expired' = [expired EXCEPT ![j] = FALSE]
         ELSE UNCHANGED <<status, backoff, lockedBy, expired>>
    /\ stale' = (stale \cup Holders({j})) \ {w}
    /\ UNCHANGED attempts

Orphans == {j \in Jobs : status[j] = "running" /\ expired[j]}

\* RequeueOrphans, first statement: every row whose lock is older than the
\* TTL, whether its worker is gone or merely slow (nothing renews locked_at).
RequeueOrphans ==
    /\ status' = [j \in Jobs |-> IF j \in Orphans THEN AfterFailure(j) ELSE status[j]]
    /\ backoff' = [j \in Jobs |-> IF j \in Orphans /\ ~Exhausted(j)
                                    THEN TRUE ELSE backoff[j]]
    /\ lockedBy' = [j \in Jobs |-> IF j \in Orphans THEN Nobody ELSE lockedBy[j]]
    /\ expired' = [j \in Jobs |-> IF j \in Orphans THEN FALSE ELSE expired[j]]
    /\ stale' = stale \cup Holders(Orphans)
    /\ UNCHANGED <<attempts, held>>

-----------------------------------------------------------------------------
(* What the HTTP handlers do to jobs.  S is the set of rows their WHERE    *)
(* clause selects (a run, a level, a step).                                *)

BugResetAll(S) ==
    /\ \A j \in S : Exists(j)
    /\ status' = [j \in Jobs |-> IF j \in S THEN "pending" ELSE status[j]]
    /\ attempts' = [j \in Jobs |-> IF j \in S THEN 0 ELSE attempts[j]]
    /\ lockedBy' = [j \in Jobs |-> IF j \in S THEN Nobody ELSE lockedBy[j]]
    /\ backoff' = [j \in Jobs |-> IF j \in S THEN FALSE ELSE backoff[j]]
    /\ expired' = [j \in Jobs |-> IF j \in S THEN FALSE ELSE expired[j]]
    /\ stale' = stale \cup Holders(S)
    /\ UNCHANGED held

\* retryRun (store.Retry), playLevel, playStep: attempts = 0, available now,
\* unlocked.  Play also selects pending rows, to zero their counter.
Reset(S) ==
    /\ \A j \in S : status[j] \in {"pending", "running", "dead"}
    /\ status' = [j \in Jobs |-> IF j \in S THEN "pending" ELSE status[j]]
    /\ attempts' = [j \in Jobs |-> IF j \in S THEN 0 ELSE attempts[j]]
    /\ lockedBy' = [j \in Jobs |-> IF j \in S THEN Nobody ELSE lockedBy[j]]
    /\ backoff' = [j \in Jobs |-> IF j \in S THEN FALSE ELSE backoff[j]]
    /\ expired' = [j \in Jobs |-> IF j \in S THEN FALSE ELSE expired[j]]
    /\ stale' = stale \cup Holders(S)
    /\ UNCHANGED held

\* cancelRun, second statement: dead, but locked_by stays as it is.
Kill(S) ==
    /\ \A j \in S : status[j] \in {"pending", "running"}
    /\ status' = [j \in Jobs |-> IF j \in S THEN "dead" ELSE status[j]]
    /\ stale' = stale \cup Holders(S)
    /\ UNCHANGED <<attempts, lockedBy, backoff, expired, held>>

\* replayLevel, replayStep: DELETE.
Delete(S) ==
    /\ \A j \in S : Exists(j)
    /\ status' = [j \in Jobs |-> IF j \in S THEN "deleted" ELSE status[j]]
    /\ lockedBy' = [j \in Jobs |-> IF j \in S THEN Nobody ELSE lockedBy[j]]
    /\ expired' = [j \in Jobs |-> IF j \in S THEN FALSE ELSE expired[j]]
    /\ stale' = stale \cup Holders(S)
    /\ UNCHANGED <<attempts, backoff, held>>

-----------------------------------------------------------------------------
(* The environment.                                                        *)

\* Workers that lose what they hold without reporting it: the process dies
\* or is asked to stop (handle's context is cancelled, so that its Succeed
\* or Fail is never executed), or the reporting statement itself errors
\* (logged, not retried).
Abandon(W) ==
    /\ held' = [w \in Workers |-> IF w \in W THEN NoJob ELSE held[w]]
    /\ stale' = stale \ W
    /\ UNCHANGED rows

BackoffElapses(j) ==
    /\ backoff[j]
    /\ backoff' = [backoff EXCEPT ![j] = FALSE]
    /\ UNCHANGED <<status, attempts, lockedBy, expired, held, stale>>

LockExpires(j) ==
    /\ status[j] = "running"
    /\ ~expired[j]
    /\ expired' = [expired EXCEPT ![j] = TRUE]
    /\ UNCHANGED <<status, attempts, lockedBy, backoff, held, stale>>

-----------------------------------------------------------------------------
Api == \E S \in SUBSET Jobs : Reset(S) \/ Kill(S) \/ Delete(S)

Next ==
    \/ \E S \in SUBSET Jobs : Enqueue(S)
    \/ \E w \in Workers, j \in Jobs : Claim(w, j)
    \/ \E w \in Workers : Succeed(w) \/ Fail(w)
    \/ RequeueOrphans
    \/ Api
    \/ \E W \in SUBSET Workers : Abandon(W)
    \/ \E j \in Jobs : BackoffElapses(j) \/ LockExpires(j)

Spec == Init /\ [][Next]_vars

(***************************************************************************)
(* Fairness.  Workers poll for ever, a handler returns, the supervisor     *)
(* ticks every OrphanCheckEvery, and time passes.  Nothing is assumed of   *)
(* API callers, of inserts, or of crashes.                                 *)
(***************************************************************************)
Fairness ==
    /\ WF_vars(\E w \in Workers, j \in Jobs : Claim(w, j))
    /\ \A w \in Workers : WF_vars(Succeed(w) \/ Fail(w))
    /\ WF_vars(RequeueOrphans)
    /\ \A j \in Jobs : WF_vars(BackoffElapses(j)) /\ WF_vars(LockExpires(j))

FairSpec == Spec /\ Fairness

-----------------------------------------------------------------------------
(* Properties.                                                             *)

\* No pending job is beyond Claim's reach: attempts never exceeds
\* max_attempts (the jobs_attempts_chk constraint allows one more, and a
\* violation would break every Claim), and no path that makes a row pending
\* again (Fail, RequeueOrphans, retry, play) leaves it with its attempts used
\* up, where Claim would skip it for ever.
AttemptBudget ==
    \A j \in Jobs :
        /\ attempts[j] <= MaxAttempts
        /\ status[j] = "pending" => attempts[j] < MaxAttempts

\* Of the workers that are on one job, at most one is not stale: a second
\* worker gets the job only after it was taken from the first (its lock
\* outlived the TTL, or the API reset it), never by two Claims of one attempt.
ExclusiveClaim ==
    \A v, w \in Workers :
        v # w /\ held[v] = held[w] /\ held[v] # NoJob => v \in stale \/ w \in stale

\* A worker owns the row it works on, locked in its own name, unless it was
\* taken from it; so its Succeed or Fail, which address the row by id alone,
\* report on the very attempt they belong to.
HolderOwnsRow ==
    \A w \in Workers \ stale :
        held[w] # NoJob => status[held[w]] = "running" /\ lockedBy[held[w]] = w

\* A succeeded job runs again for one reason only, besides a replay, which
\* deletes the row: the Fail of a stale worker, from which the job had been
\* taken before it succeeded.
SucceededIsFinal ==
    [][\A j \in Jobs :
          status[j] = "succeeded" =>
              \/ status'[j] \in {"succeeded", "deleted"}
              \/ \E w \in stale : held[w] = j /\ held'[w] = NoJob]_vars

\* Every inserted job settles once API callers are quiet: crashes, slow
\* handlers and lost reports delay it, but each one uses up an attempt.
Settles ==
    <>[][~Api]_vars =>
        \A j \in Jobs :
            status[j] \in {"pending", "running"}
                ~> status[j] \in {"succeeded", "dead", "deleted"}
=============================================================================
