--------------------------- MODULE RunEngineProofs ---------------------------
(***************************************************************************)
(* For every plan, number of runs and of workers:                          *)
(*                                                                         *)
(*   - what the workers, the supervisor, the dispatcher and the HTTP       *)
(*     handlers do together to the jobs table is what JobQueue allows, so  *)
(*     that the theorems of JobQueueProofs hold of the whole program;      *)
(*   - no step is ever dispatched twice;                                   *)
(*   - without replays (NoReplay), under every crash, lost statement,      *)
(*     expired lock and other API call, a copied table is complete, and no *)
(*     step that depends on it is worked on before it is;                  *)
(*   - with failing and slow handlers and any use of play (Reporting), a   *)
(*     step that shows as running has work left or a worker on it;         *)
(*   - undisturbed by the API, crashes and lost reports (Undisturbed), a   *)
(*     step is worked on after the steps it depends on have succeeded, and *)
(*     a succeeded run keeps all of its steps succeeded; the runs behave   *)
(*     as MigrationRun says, and their end is final.                       *)
(*                                                                         *)
(* The three hypotheses are the ones the code needs: section 4 of the      *)
(* README gives the behaviours that break each result without its own.     *)
(***************************************************************************)
EXTENDS RunEngine, FiniteSetTheorems, TLAPS

-----------------------------------------------------------------------------
(* Refinement of JobQueue.                                                 *)

\* The ids InsertJobs takes are free ids.
LEMMA NewIdsAreFree ==
    ASSUME NEW S, Namings(S) # {}
    PROVE  LET id == CHOOSE f \in Namings(S) : TRUE
           IN  /\ id \in [S -> FreeIds]
               /\ \A a, b \in S : id[a] = id[b] => a = b
<1> DEFINE id == CHOOSE f \in Namings(S) : TRUE
<1>1. id \in Namings(S)
  OBVIOUS
<1> QED
  BY <1>1 DEF Namings

\* InsertJobs is an Enqueue of the queue.
LEMMA InsertEnqueues ==
    ASSUME NEW owner, NEW status_, InsertJobs(owner, status_)
    PROVE  \E S \in SUBSET Jobs : Q!Enqueue(S)
<1> DEFINE id == CHOOSE f \in Namings(DOMAIN owner) : TRUE
           new == {id[a] : a \in DOMAIN owner}
<1>1. Namings(DOMAIN owner) # {} /\ Q!Enqueue(new)
  BY DEF InsertJobs
<1>2. id \in [DOMAIN owner -> FreeIds]
  BY <1>1, NewIdsAreFree
<1>3. new \in SUBSET Jobs
  BY <1>2 DEF FreeIds
<1> QED
  BY <1>1, <1>3

\* The tables the other actions select from are subsets of the jobs.
LEMMA SelectsJobs ==
    ASSUME NEW S, NEW statuses
    PROVE  HasStatus(JobsOf(S), statuses) \in SUBSET Jobs /\ JobsOf(S) \in SUBSET Jobs
BY DEF HasStatus, JobsOf

\* Every step is a step of the queue, or leaves it alone.
LEMMA NextRefines == [Next]_vars => [Q!Next]_(Q!vars)
<1> SUFFICES ASSUME [Next]_vars PROVE Q!Next \/ UNCHANGED queueVars
  BY DEF Q!vars, queueVars
<1> USE DEF Q!Next, Q!Api
<1>1. ASSUME NEW r \in Runs, NEW mode \in Modes, StartRun(r, mode) PROVE Q!Next
  BY <1>1, InsertEnqueues DEF StartRun, InsertStepJobs
<1>2. CASE Api
  <2>1. ASSUME NEW r \in Runs, CancelRun(r) PROVE UNCHANGED queueVars
    BY <2>1 DEF CancelRun
  <2>2. ASSUME NEW r \in Runs, RetryJobs(r) PROVE Q!Next
    BY <2>2, SelectsJobs DEF RetryJobs
  <2>3. ASSUME NEW c \in calls, CancelJobs(c) PROVE Q!Next
    BY <2>3, SelectsJobs DEF CancelJobs
  <2>4. ASSUME NEW c \in calls, RetrySteps(c) \/ RetryRun(c) PROVE UNCHANGED queueVars
    BY <2>4 DEF RetrySteps, RetryRun
  <2>5. ASSUME NEW r, NEW P, PlaySteps(r, P) PROVE Q!Next
    BY <2>5, SelectsJobs DEF PlaySteps
  <2>6. ASSUME NEW r, NEW P, ReplaySteps(r, P) PROVE Q!Next
    BY <2>6, SelectsJobs DEF ReplaySteps
  <2> QED
    BY <1>2, <2>1, <2>2, <2>3, <2>4, <2>5, <2>6
       DEF Api, PlayStep, PlayLevel, ReplayStep, ReplayLevel
<1>3. ASSUME NEW w \in Workers, NEW j \in Jobs, ClaimJob(w, j) PROVE Q!Next
  BY <1>3 DEF ClaimJob
<1>4. ASSUME NEW w \in Workers, Handle(w) PROVE Q!Next \/ UNCHANGED queueVars
  <2>1. CASE StartStep(w) \/ ExecHandler(w) \/ ExecError(w) \/ BatchDone(w)
             \/ HasBatches(w) \/ CountUnfinished(w) \/ FinishStep(w) \/ FailStep(w)
    BY <2>1 DEF StartStep, ExecHandler, ExecError, BatchDone, HasBatches, CountUnfinished,
                FinishStep, FailStep
  <2>2. CASE ExecCopyTable(w)
    BY <2>2, InsertEnqueues DEF ExecCopyTable
  <2>3. CASE SucceedJob(w)
    BY <2>3 DEF SucceedJob
  <2>4. CASE FailJob(w)
    BY <2>4 DEF FailJob
  <2>5. CASE LoseStatement(w)
    BY <2>5 DEF LoseStatement
  <2> QED
    BY <1>4, <2>1, <2>2, <2>3, <2>4, <2>5 DEF Handle
<1>5. CASE RequeueOrphans
  BY <1>5 DEF RequeueOrphans
<1>6. CASE FailOrphanedSteps
  BY <1>6 DEF FailOrphanedSteps
<1>7. CASE Dispatch
  <2>1. CASE DispatchSelect
    BY <2>1 DEF DispatchSelect
  <2>2. ASSUME NEW s \in Steps, DispatchEnqueue(s) PROVE Q!Next
    BY <2>2, InsertEnqueues DEF DispatchEnqueue, InsertStepJobs
  <2> QED
    BY <1>7, <2>1, <2>2 DEF Dispatch
<1>8. CASE Watch
  BY <1>8 DEF Watch, WatchSelect, WatchCount, WatchWrite
<1>9. CASE Crash
  BY <1>9 DEF Crash
<1>10. ASSUME NEW j \in Jobs, BackoffElapses(j) \/ LockExpires(j) PROVE Q!Next
  BY <1>10 DEF BackoffElapses, LockExpires
<1>11. CASE UNCHANGED vars
  BY <1>11 DEF vars
<1> QED
  BY <1>1, <1>2, <1>3, <1>4, <1>5, <1>6, <1>7, <1>8, <1>9, <1>10, <1>11 DEF Next

\* The whole program uses the jobs table as JobQueue describes it.
THEOREM RefinesJobQueue == Spec => QueueSpec
<1>1. Init => Q!Init
  BY DEF Init
<1> QED
  BY <1>1, NextRefines, PTL DEF Spec, QueueSpec, Q!Spec

-----------------------------------------------------------------------------
(* No step is dispatched twice.                                            *)

Types ==
    /\ jobStatus \in [Jobs -> Q!Statuses]
    /\ jobStep \in [Jobs -> Steps \cup {NoStep}]
    /\ batch \in [Jobs -> {"none", "pending", "succeeded"}]
    /\ runStatus \in [Runs -> RunStatuses]
    /\ stepStatus \in [Steps -> StepStatuses]
    /\ ready \in SUBSET Steps
    /\ verdict \in SUBSET (Runs \X {"succeeded", "failed"})
    /\ held \in [Workers -> Jobs \cup {NoJob}]
    /\ pc \in [Workers -> Statements]
    /\ task \in [Workers -> Jobs \cup {NoJob}]

\* Jobs belong to steps of runs that were started.
JobsHaveRuns ==
    \A j \in Jobs : jobStatus[j] # "none" =>
        jobStep[j] \in Steps /\ runStatus[RunOf[jobStep[j]]] # "none"

\* So do the steps that are in the table.
StepsHaveRuns ==
    \A s \in Steps : stepStatus[s] # "none" => runStatus[RunOf[s]] # "none"

\* Between the dispatcher's query and its insert nobody else inserts a job for
\* the steps it found: startRun does so only for steps of a new run.
ReadyStepsHaveNoJob ==
    \A s \in ready : runStatus[RunOf[s]] # "none" /\ StepJobs(s) = {}

\* A busy worker is on a job that was inserted.
WorkersHaveJobs ==
    \A w \in Workers : pc[w] # "idle" => task[w] \in Jobs /\ jobStatus[task[w]] # "none"

DispatchInv ==
    /\ Types
    /\ SingleDispatch
    /\ JobsHaveRuns /\ StepsHaveRuns /\ ReadyStepsHaveNoJob /\ WorkersHaveJobs

\* What a statement on the jobs table that inserts nothing does to it: no row
\* comes back, and no row that was inserted is forgotten.
Shrinks ==
    /\ jobStatus' \in [Jobs -> Q!Statuses]
    /\ \A j \in Jobs : jobStatus'[j] = "none" <=> jobStatus[j] = "none"
    /\ \A j \in Jobs : jobStatus[j] = "deleted" => jobStatus'[j] = "deleted"

\* Such are all operations of the queue but Enqueue.
LEMMA QueueStepsShrink ==
    ASSUME Types,
           \/ \E w \in Workers, j \in Jobs : Q!Claim(w, j)
           \/ \E w \in Workers : Q!Succeed(w) \/ Q!Fail(w) \/ Q!Abandon({w})
           \/ Q!RequeueOrphans
           \/ \E S \in SUBSET Jobs : Q!Reset(S) \/ Q!Kill(S) \/ Q!Delete(S)
           \/ Q!Abandon(Workers)
           \/ \E j \in Jobs : Q!BackoffElapses(j) \/ Q!LockExpires(j)
           \/ UNCHANGED queueVars
    PROVE  Shrinks
<1> USE QueueAssumption DEF Types, Shrinks, Q!Statuses
<1>1. ASSUME NEW w \in Workers, NEW j \in Jobs, Q!Claim(w, j) PROVE Shrinks
  BY <1>1 DEF Q!Claim
<1>2. ASSUME NEW w \in Workers, Q!Succeed(w) PROVE Shrinks
  BY <1>2 DEF Q!Succeed, Q!Exists
<1>3. ASSUME NEW w \in Workers, Q!Fail(w) PROVE Shrinks
  BY <1>3 DEF Q!Fail, Q!Exists, Q!AfterFailure
<1>4. CASE Q!RequeueOrphans
  BY <1>4 DEF Q!RequeueOrphans, Q!Orphans, Q!AfterFailure
<1>5. ASSUME NEW S \in SUBSET Jobs, Q!Reset(S) PROVE Shrinks
  BY <1>5 DEF Q!Reset
<1>6. ASSUME NEW S \in SUBSET Jobs, Q!Kill(S) PROVE Shrinks
  BY <1>6 DEF Q!Kill
<1>7. ASSUME NEW S \in SUBSET Jobs, Q!Delete(S) PROVE Shrinks
  BY <1>7 DEF Q!Delete, Q!Exists
<1>8. ASSUME NEW W, Q!Abandon(W) PROVE Shrinks
  BY <1>8 DEF Q!Abandon, Q!rows
<1>9. ASSUME NEW j \in Jobs, Q!BackoffElapses(j) \/ Q!LockExpires(j) PROVE Shrinks
  BY <1>9 DEF Q!BackoffElapses, Q!LockExpires
<1>10. CASE UNCHANGED queueVars
  BY <1>10 DEF queueVars
<1> QED
  BY <1>1, <1>2, <1>3, <1>4, <1>5, <1>6, <1>7, <1>8, <1>9, <1>10

\* A step that inserts no step job, starts no run and does not add to the
\* dispatcher's slice keeps the invariant, if it keeps its parts on steps and
\* workers.
LEMMA ShrinkingStep ==
    ASSUME DispatchInv, Types', Shrinks,
           jobStep' = jobStep,
           \A j \in Jobs : batch'[j] = "none" => batch[j] = "none",
           \A r \in Runs : runStatus[r] # "none" => runStatus'[r] # "none",
           ready' \subseteq ready,
           StepsHaveRuns', WorkersHaveJobs'
    PROVE  DispatchInv'
<1> USE DEF DispatchInv, Types, Shrinks, StepAssumption
<1>1. \A s \in Steps : StepJobs(s)' \subseteq StepJobs(s)
  BY DEF StepJobs, BatchesOf, JobsOf, Q!Exists, Q!Statuses
<1>2. SingleDispatch'
  BY <1>1 DEF SingleDispatch
<1>3. JobsHaveRuns'
  BY StepAssumption DEF JobsHaveRuns
<1>4. ReadyStepsHaveNoJob'
  BY <1>1, StepAssumption DEF ReadyStepsHaveNoJob
<1> QED
  BY <1>2, <1>3, <1>4

\* What InsertJobs does to the tables: new rows, each of its owner's step, and
\* no other row changes.
LEMMA InsertEffect ==
    ASSUME Types, NEW A, NEW owner \in [A -> Steps],
           NEW new_ \in {"none", "pending"}, InsertJobs(owner, new_)
    PROVE  /\ jobStatus' \in [Jobs -> Q!Statuses]
           /\ jobStep' \in [Jobs -> Steps \cup {NoStep}]
           /\ batch' \in [Jobs -> {"none", "pending", "succeeded"}]
           /\ held' = held
           /\ \E id \in [A -> FreeIds] :
                /\ \A a, b \in A : id[a] = id[b] => a = b
                /\ \A a \in A : /\ jobStatus'[id[a]] = "pending"
                                /\ jobStep'[id[a]] = owner[a]
                                /\ batch'[id[a]] = new_
                /\ \A j \in Jobs : j \notin {id[a] : a \in A} =>
                      /\ jobStatus'[j] = jobStatus[j]
                      /\ jobStep'[j] = jobStep[j]
                      /\ batch'[j] = batch[j]
<1> DEFINE id == CHOOSE f \in Namings(A) : TRUE
           new == {id[a] : a \in A}
<1>1. A = DOMAIN owner
  OBVIOUS
<1>2. /\ Namings(A) # {}
      /\ Q!Enqueue(new)
      /\ jobStep' = [j \in Jobs |-> IF j \in new
                                      THEN owner[CHOOSE a \in A : id[a] = j]
                                      ELSE jobStep[j]]
      /\ batch' = [j \in Jobs |-> IF j \in new THEN new_ ELSE batch[j]]
  BY <1>1 DEF InsertJobs
<1>3. /\ id \in [A -> FreeIds]
      /\ \A a, b \in A : id[a] = id[b] => a = b
  BY <1>2, NewIdsAreFree
<1>4. /\ jobStatus' = [j \in Jobs |-> IF j \in new THEN "pending" ELSE jobStatus[j]]
      /\ held' = held
  BY <1>2 DEF Q!Enqueue
<1>5. \A j \in new : (CHOOSE a \in A : id[a] = j) \in A
  OBVIOUS
<1>6. \A a \in A : (CHOOSE b \in A : id[b] = id[a]) = a
  BY <1>3
<1>7. \A a \in A : id[a] \in Jobs
  BY <1>3 DEF FreeIds
<1> HIDE DEF id
<1>8. /\ jobStatus' \in [Jobs -> Q!Statuses]
      /\ jobStep' \in [Jobs -> Steps \cup {NoStep}]
      /\ batch' \in [Jobs -> {"none", "pending", "succeeded"}]
  BY <1>2, <1>4, <1>5 DEF Types, Q!Statuses
<1>9. \A a \in A : /\ jobStatus'[id[a]] = "pending"
                   /\ jobStep'[id[a]] = owner[a]
                   /\ batch'[id[a]] = new_
  BY <1>2, <1>4, <1>6, <1>7
<1>10. \A j \in Jobs : j \notin new =>
          jobStatus'[j] = jobStatus[j] /\ jobStep'[j] = jobStep[j] /\ batch'[j] = batch[j]
  BY <1>2, <1>4
<1> QED
  BY <1>3, <1>4, <1>8, <1>9, <1>10

\* A transaction that inserts jobs for steps S that have none.
LEMMA InsertStepJobsKeeps ==
    ASSUME DispatchInv, NEW S \in SUBSET Steps, InsertStepJobs(S),
           \A s \in S : StepJobs(s) = {}
    PROVE  /\ jobStatus' \in [Jobs -> Q!Statuses]
           /\ jobStep' \in [Jobs -> Steps \cup {NoStep}]
           /\ batch' \in [Jobs -> {"none", "pending", "succeeded"}]
           /\ held' = held
           /\ SingleDispatch'
           /\ \A s \in Steps \ S : StepJobs(s)' = StepJobs(s)
           /\ \A j \in Jobs : jobStatus[j] # "none" =>
                  jobStatus'[j] # "none" /\ jobStep'[j] = jobStep[j]
           /\ \A j \in Jobs : jobStatus'[j] # "none" =>
                  jobStatus[j] # "none" \/ jobStep'[j] \in S
<1> DEFINE owner == [s \in S |-> s]
<1>1. owner \in [S -> Steps] /\ Types /\ InsertJobs(owner, "none")
  BY DEF InsertStepJobs, DispatchInv
<1>2. /\ jobStatus' \in [Jobs -> Q!Statuses]
      /\ jobStep' \in [Jobs -> Steps \cup {NoStep}]
      /\ batch' \in [Jobs -> {"none", "pending", "succeeded"}]
      /\ held' = held
  BY <1>1, InsertEffect
<1>3. PICK id \in [S -> FreeIds] :
                /\ \A a, b \in S : id[a] = id[b] => a = b
                /\ \A a \in S : /\ jobStatus'[id[a]] = "pending"
                                /\ jobStep'[id[a]] = owner[a]
                                /\ batch'[id[a]] = "none"
                /\ \A j \in Jobs : j \notin {id[a] : a \in S} =>
                      /\ jobStatus'[j] = jobStatus[j]
                      /\ jobStep'[j] = jobStep[j]
                      /\ batch'[j] = batch[j]
  BY <1>1, InsertEffect
<1>4. \A a \in S : id[a] \in Jobs /\ jobStatus[id[a]] = "none"
  BY <1>3 DEF FreeIds
<1>5. \A s \in Steps \ S : StepJobs(s)' = StepJobs(s)
  BY <1>3, <1>4 DEF StepJobs, BatchesOf, JobsOf, Q!Exists
<1>6. \A s \in S : StepJobs(s)' \subseteq {id[s]}
  BY <1>3, <1>4 DEF StepJobs, BatchesOf, JobsOf, Q!Exists
<1>7. SingleDispatch'
  BY <1>5, <1>6 DEF SingleDispatch, DispatchInv
<1>8. \A j \in Jobs : jobStatus[j] # "none" =>
          jobStatus'[j] # "none" /\ jobStep'[j] = jobStep[j]
  BY <1>3, <1>4
<1>9. \A j \in Jobs : jobStatus'[j] # "none" => jobStatus[j] # "none" \/ jobStep'[j] \in S
  BY <1>3
<1> QED
  BY <1>2, <1>5, <1>7, <1>8, <1>9

\* A run's descendants are steps of the run: dependencies stay within a run.
LEMMA DescendantsInRun ==
    ASSUME NEW s \in Steps
    PROVE  Descendants(s) \subseteq StepsOf(RunOf[s])
<1> DEFINE OfRun == StepsOf(RunOf[s])
<1>1. OfRun \in SUBSET Steps /\ s \in OfRun
  BY DEF StepsOf
<1>2. \A u \in Steps : Deps[u] \cap OfRun # {} => u \in OfRun
  BY StepAssumption DEF StepsOf
<1> QED
  BY <1>1, <1>2 DEF Descendants

\* Nothing is inserted, selected or claimed at the start.
LEMMA InitDispatchInv == Init => DispatchInv
BY QueueAssumption, StepAssumption
   DEF Init, Q!Init, DispatchInv, Types, Q!Statuses, RunStatuses, StepStatuses, Statements,
       SingleDispatch, StepJobs, JobsOf, Q!Exists, JobsHaveRuns, StepsHaveRuns,
       ReadyStepsHaveNoJob, WorkersHaveJobs

\* startRun inserts jobs for steps of a run that had none.
LEMMA StartRunKeeps ==
    ASSUME DispatchInv, NEW r \in Runs, NEW mode, StartRun(r, mode)
    PROVE  DispatchInv'
<1> DEFINE S == {s \in StepsOf(r) : mode = "auto" /\ Deps[s] = {}}
<1> USE DEF DispatchInv
<1>1. /\ runStatus[r] = "none"
      /\ runStatus' = [runStatus EXCEPT ![r] = "running"]
      /\ stepStatus' = [s \in Steps |-> IF RunOf[s] = r THEN "pending" ELSE stepStatus[s]]
      /\ InsertStepJobs(S)
      /\ UNCHANGED <<pc, task, ready, verdict>>
  BY DEF StartRun, workerVars, loopVars
<1>2. S \in SUBSET Steps
  BY DEF StepsOf
<1>3. \A s \in S : StepJobs(s) = {}
  BY <1>1 DEF JobsHaveRuns, StepsOf, StepJobs, JobsOf, Q!Exists
<1> HIDE DEF S
<1>4. /\ jobStatus' \in [Jobs -> Q!Statuses]
      /\ jobStep' \in [Jobs -> Steps \cup {NoStep}]
      /\ batch' \in [Jobs -> {"none", "pending", "succeeded"}]
      /\ held' = held
      /\ SingleDispatch'
      /\ \A s \in Steps \ S : StepJobs(s)' = StepJobs(s)
      /\ \A j \in Jobs : jobStatus[j] # "none" =>
             jobStatus'[j] # "none" /\ jobStep'[j] = jobStep[j]
      /\ \A j \in Jobs : jobStatus'[j] # "none" =>
             jobStatus[j] # "none" \/ jobStep'[j] \in S
  BY <1>1, <1>2, <1>3, InsertStepJobsKeeps
<1>5. Types'
  BY <1>1, <1>4 DEF Types, RunStatuses, StepStatuses
<1>6. \A s \in S : RunOf[s] = r
  BY DEF S, StepsOf
<1>7. \A q \in Runs : runStatus[q] # "none" => runStatus'[q] # "none"
  BY <1>1 DEF Types
<1>8. runStatus'[r] # "none"
  BY <1>1 DEF Types
<1>9. JobsHaveRuns'
  BY <1>2, <1>4, <1>6, <1>7, <1>8, StepAssumption DEF JobsHaveRuns, Types
<1>10. StepsHaveRuns'
  BY <1>1, <1>7, <1>8, StepAssumption DEF StepsHaveRuns, Types
<1>11. ReadyStepsHaveNoJob'
  BY <1>1, <1>4, <1>6, <1>7, StepAssumption DEF ReadyStepsHaveNoJob, Types
<1>12. WorkersHaveJobs'
  BY <1>1, <1>4 DEF WorkersHaveJobs
<1> QED
  BY <1>4, <1>5, <1>9, <1>10, <1>11, <1>12

\* The HTTP handlers on a run that exists insert nothing.
LEMMA ApiKeeps == ASSUME DispatchInv, Api PROVE DispatchInv'
<1> USE DEF DispatchInv, RunStatuses, StepStatuses
<1> SUFFICES /\ Types' /\ Shrinks /\ jobStep' = jobStep /\ batch' = batch
             /\ \A r \in Runs : runStatus[r] # "none" => runStatus'[r] # "none"
             /\ ready' = ready
             /\ StepsHaveRuns' /\ WorkersHaveJobs'
  BY ShrinkingStep
<1>w. ASSUME Shrinks, pc' = pc, task' = task PROVE WorkersHaveJobs'
  BY <1>w DEF WorkersHaveJobs, Shrinks
<1> DEFINE Goal == /\ Types' /\ Shrinks /\ jobStep' = jobStep /\ batch' = batch
                   /\ \A r \in Runs : runStatus[r] # "none" => runStatus'[r] # "none"
                   /\ ready' = ready
                   /\ StepsHaveRuns' /\ WorkersHaveJobs'
<1>1. ASSUME NEW r \in Runs, CancelRun(r) PROVE Goal
  <2>1. Shrinks
    BY <1>1, QueueStepsShrink DEF CancelRun
  <2>2. Types'
    BY <1>1 DEF CancelRun, Types, queueVars, jobVars, workerVars, loopVars
  <2> QED
    BY <1>1, <1>w, <2>1, <2>2, StepAssumption
       DEF CancelRun, Types, StepsHaveRuns, jobVars, workerVars, loopVars
<1>2. ASSUME NEW r \in Runs, RetryJobs(r) PROVE Goal
  <2>1. Shrinks
    BY <1>2, QueueStepsShrink, SelectsJobs DEF RetryJobs
  <2>2. held' = held
    BY <1>2 DEF RetryJobs, Q!Reset
  <2> QED
    BY <1>2, <1>w, <2>1, <2>2
       DEF RetryJobs, Types, Shrinks, StepsHaveRuns, jobVars, tableVars, workerVars, loopVars
<1>3. ASSUME NEW c \in calls, CancelJobs(c) PROVE Goal
  <2>1. Shrinks
    BY <1>3, QueueStepsShrink, SelectsJobs DEF CancelJobs
  <2>2. held' = held
    BY <1>3 DEF CancelJobs, Q!Kill
  <2> QED
    BY <1>3, <1>w, <2>1, <2>2
       DEF CancelJobs, Types, Shrinks, StepsHaveRuns, jobVars, tableVars, workerVars, loopVars
<1>4. ASSUME NEW c \in calls, RetrySteps(c) PROVE Goal
  <2>1. Shrinks
    BY <1>4, QueueStepsShrink DEF RetrySteps
  <2> QED
    BY <1>4, <1>w, <2>1
       DEF RetrySteps, Types, StepsHaveRuns, queueVars, jobVars, workerVars, loopVars
<1>5. ASSUME NEW c \in calls, RetryRun(c) PROVE Goal
  <2>1. Shrinks
    BY <1>5, QueueStepsShrink DEF RetryRun
  <2>2. runStatus' \in [Runs -> RunStatuses]
        /\ \A r \in Runs : runStatus[r] # "none" => runStatus'[r] # "none"
    BY <1>5 DEF RetryRun, Types
  <2> QED
    BY <1>5, <1>w, <2>1, <2>2, StepAssumption
       DEF RetryRun, Types, StepsHaveRuns, queueVars, jobVars, workerVars, loopVars
<1>6. ASSUME NEW r \in Runs, NEW P, PlaySteps(r, P) PROVE Goal
  <2>1. Shrinks
    BY <1>6, QueueStepsShrink, SelectsJobs DEF PlaySteps
  <2>2. held' = held
    BY <1>6 DEF PlaySteps, Q!Reset
  <2>3. runStatus' \in [Runs -> RunStatuses]
        /\ \A q \in Runs : runStatus[q] # "none" => runStatus'[q] # "none"
    BY <1>6 DEF PlaySteps, Reopen, Types
  <2> QED
    BY <1>6, <1>w, <2>1, <2>2, <2>3, StepAssumption
       DEF PlaySteps, Types, Shrinks, StepsHaveRuns, jobVars, workerVars, loopVars
<1>7. ASSUME NEW r \in Runs, NEW P \in SUBSET StepsOf(r), ReplaySteps(r, P) PROVE Goal
  <2>1. Shrinks
    BY <1>7, QueueStepsShrink, SelectsJobs DEF ReplaySteps
  <2>2. held' = held
    BY <1>7 DEF ReplaySteps, Q!Delete
  <2>3. /\ runStatus' \in [Runs -> RunStatuses]
        /\ \A q \in Runs : runStatus[q] # "none" => runStatus'[q] # "none"
        /\ runStatus'[r] # "none"
    BY <1>7 DEF ReplaySteps, Reopen, Types
  <2>4. StepsHaveRuns'
    BY <1>7, <2>3, StepAssumption DEF ReplaySteps, StepsHaveRuns, StepsOf, Types
  <2> QED
    BY <1>7, <1>w, <2>1, <2>2, <2>3, <2>4
       DEF ReplaySteps, Types, Shrinks, jobVars, workerVars, loopVars
<1>8. ASSUME NEW s \in Steps, PlayStep(s) \/ ReplayStep(s) PROVE Goal
  BY <1>6, <1>7, <1>8, DescendantsInRun, StepAssumption DEF PlayStep, ReplayStep
<1>9. ASSUME NEW r \in Runs, NEW l \in Levels, PlayLevel(r, l) \/ ReplayLevel(r, l) PROVE Goal
  BY <1>6, <1>7, <1>9 DEF PlayLevel, ReplayLevel
<1> QED
  BY <1>1, <1>2, <1>3, <1>4, <1>5, <1>8, <1>9 DEF Api

\* A worker's statements: only hCopyTable inserts, and what it inserts are
\* batch jobs, which are not step jobs.
LEMMA WorkerKeeps ==
    ASSUME DispatchInv, NEW w \in Workers,
           Handle(w) \/ \E j \in Jobs : ClaimJob(w, j)
    PROVE  DispatchInv'
<1> USE DEF DispatchInv
<1>1. ASSUME NEW j \in Jobs, ClaimJob(w, j) PROVE DispatchInv'
  <2>1. Shrinks
    BY <1>1, QueueStepsShrink DEF ClaimJob
  <2>2. held' \in [Workers -> Jobs \cup {NoJob}] /\ jobStatus[j] = "pending"
    BY <1>1 DEF ClaimJob, Q!Claim, Types
  <2>3. Types'
    BY <1>1, <2>1, <2>2
       DEF ClaimJob, GoTo, Types, Shrinks, Statements, jobVars, tableVars, loopVars
  <2>4. WorkersHaveJobs'
    BY <1>1, <2>1, <2>2 DEF ClaimJob, GoTo, WorkersHaveJobs, Types, Shrinks
  <2>5. StepsHaveRuns'
    BY <1>1 DEF ClaimJob, StepsHaveRuns, tableVars
  <2> QED
    BY <1>1, <2>1, <2>3, <2>4, <2>5, ShrinkingStep
       DEF ClaimJob, jobVars, tableVars, loopVars
<1>2. ASSUME pc[w] # "idle" PROVE StepOf(w) \in Steps /\ runStatus[RunOf[StepOf(w)]] # "none"
  BY <1>2 DEF WorkersHaveJobs, JobsHaveRuns, StepOf
<1>3. ASSUME NEW next \in Statements, pc' = [pc EXCEPT ![w] = next], pc[w] # "idle",
             task' = task \/ (next = "idle" /\ task' = [task EXCEPT ![w] = NoJob]),
             \A j \in Jobs : jobStatus[j] # "none" => jobStatus'[j] # "none"
      PROVE  /\ WorkersHaveJobs'
             /\ pc' \in [Workers -> Statements]
             /\ task' \in [Workers -> Jobs \cup {NoJob}]
  BY <1>3 DEF WorkersHaveJobs, Types
<1>4. CASE StartStep(w) \/ FinishStep(w) \/ FailStep(w)
  <2>1. Shrinks
    BY <1>4, QueueStepsShrink DEF StartStep, FinishStep, FailStep
  <2>2. /\ WorkersHaveJobs'
        /\ pc' \in [Workers -> Statements]
        /\ task' \in [Workers -> Jobs \cup {NoJob}]
    BY <1>3, <1>4, <2>1
       DEF StartStep, FinishStep, FailStep, At, GoTo, Return, Statements, Shrinks
  <2>3. \E t \in StepStatuses \ {"none"} :
           \/ stepStatus' = [stepStatus EXCEPT ![StepOf(w)] = t]
           \/ stepStatus' = stepStatus
    BY <1>4, <1>2 DEF StartStep, FinishStep, FailStep, StepStatuses, Types, At
  <2>4. StepsHaveRuns' /\ stepStatus' \in [Steps -> StepStatuses]
    BY <1>2, <1>4, <2>3
       DEF StartStep, FinishStep, FailStep, StepsHaveRuns, Types, At, StepStatuses
  <2>5. Types'
    BY <1>4, <2>1, <2>2, <2>4
       DEF StartStep, FinishStep, FailStep, Types, Shrinks, queueVars, jobVars, loopVars
  <2> QED
    BY <1>4, <2>1, <2>2, <2>4, <2>5, ShrinkingStep
       DEF StartStep, FinishStep, FailStep, jobVars, loopVars
<1>5. CASE ExecHandler(w) \/ ExecError(w) \/ HasBatches(w) \/ CountUnfinished(w)
  <2>1. Shrinks
    BY <1>5, QueueStepsShrink DEF ExecHandler, ExecError, HasBatches, CountUnfinished
  <2>2. /\ WorkersHaveJobs'
        /\ pc' \in [Workers -> Statements]
        /\ task' \in [Workers -> Jobs \cup {NoJob}]
    BY <1>3, <1>5, <2>1
       DEF ExecHandler, ExecError, HasBatches, CountUnfinished, At, GoTo, Return, Statements,
           Shrinks
  <2>3. Types' /\ StepsHaveRuns'
    BY <1>5, <2>1, <2>2
       DEF ExecHandler, ExecError, HasBatches, CountUnfinished, Types, Shrinks, StepsHaveRuns,
           queueVars, jobVars, tableVars, loopVars
  <2> QED
    BY <1>5, <2>1, <2>2, <2>3, ShrinkingStep
       DEF ExecHandler, ExecError, HasBatches, CountUnfinished, jobVars, tableVars, loopVars
<1>6. CASE SucceedJob(w) \/ FailJob(w) \/ LoseStatement(w)
  <2>1. Shrinks
    BY <1>6, QueueStepsShrink DEF SucceedJob, FailJob, LoseStatement
  <2>2. held' \in [Workers -> Jobs \cup {NoJob}]
    BY <1>6 DEF SucceedJob, FailJob, LoseStatement, Q!Succeed, Q!Fail, Q!Abandon, queueVars,
                Types
  <2>3. /\ WorkersHaveJobs'
        /\ pc' \in [Workers -> Statements]
        /\ task' \in [Workers -> Jobs \cup {NoJob}]
    <3>1. CASE SucceedJob(w) \/ FailJob(w)
      BY <1>3, <2>1, <3>1 DEF SucceedJob, FailJob, At, GoTo, Statements, Shrinks
    <3>2. CASE LoseStatement(w)
      BY <1>3, <2>1, <3>2, LossyAssumption
         DEF LoseStatement, GoTo, Return, Statements, Shrinks
    <3> QED
      BY <1>6, <3>1, <3>2
  <2>4. Types' /\ StepsHaveRuns'
    BY <1>6, <2>1, <2>2, <2>3
       DEF SucceedJob, FailJob, LoseStatement, Types, Shrinks, StepsHaveRuns, jobVars,
           tableVars, loopVars
  <2> QED
    BY <1>6, <2>1, <2>3, <2>4, ShrinkingStep
       DEF SucceedJob, FailJob, LoseStatement, jobVars, tableVars, loopVars
<1>7. CASE BatchDone(w)
  <2>1. Shrinks
    BY <1>7, QueueStepsShrink DEF BatchDone
  <2>2. /\ WorkersHaveJobs'
        /\ pc' \in [Workers -> Statements]
        /\ task' \in [Workers -> Jobs \cup {NoJob}]
    BY <1>3, <1>7, <2>1 DEF BatchDone, At, GoTo, Statements, Shrinks
  <2>3. /\ batch' \in [Jobs -> {"none", "pending", "succeeded"}]
        /\ \A j \in Jobs : batch'[j] = "none" => batch[j] = "none"
    BY <1>7 DEF BatchDone, Types
  <2>4. Types' /\ StepsHaveRuns'
    BY <1>7, <2>1, <2>2, <2>3
       DEF BatchDone, Types, Shrinks, StepsHaveRuns, queueVars, tableVars, loopVars
  <2> QED
    BY <1>7, <2>1, <2>2, <2>3, <2>4, ShrinkingStep DEF BatchDone, tableVars, loopVars
<1>8. CASE ExecCopyTable(w)
  <2> DEFINE s == StepOf(w)
             A == 1..NBatches[s]
             owner == [i \in A |-> s]
  <2>1. /\ pc[w] # "idle"
        /\ UNCHANGED <<runStatus, stepStatus, ready, verdict, task>>
    BY <1>8 DEF ExecCopyTable, At, tableVars, loopVars
  <2>2. s \in Steps /\ runStatus[RunOf[s]] # "none"
    BY <1>2, <2>1
  <2>3. StepsHaveRuns'
    BY <2>1 DEF StepsHaveRuns
  <2>4. CASE BatchesOf(s) # {}
    <3>1. UNCHANGED queueVars /\ UNCHANGED jobVars /\ pc' = [pc EXCEPT ![w] = "fail"]
      BY <1>8, <2>4 DEF ExecCopyTable, GoTo
    <3>2. Shrinks
      BY <3>1, QueueStepsShrink
    <3>3. /\ WorkersHaveJobs'
          /\ pc' \in [Workers -> Statements]
          /\ task' \in [Workers -> Jobs \cup {NoJob}]
      BY <1>3, <2>1, <3>1, <3>2 DEF Statements, Shrinks
    <3>4. Types'
      BY <2>1, <3>1, <3>3 DEF Types, queueVars, jobVars
    <3> QED
      BY <2>1, <2>3, <3>1, <3>2, <3>3, <3>4, ShrinkingStep DEF jobVars
  <2>5. CASE BatchesOf(s) = {}
    <3>1. InsertJobs(owner, "pending") /\ pc' = [pc EXCEPT ![w] = "succeed"]
      BY <1>8, <2>5 DEF ExecCopyTable, GoTo
    <3>2. owner \in [A -> Steps]
      BY <2>2
    <3>a. \A a \in A : owner[a] = s
      OBVIOUS
    <3> HIDE DEF owner, A
    <3>3. /\ jobStatus' \in [Jobs -> Q!Statuses]
          /\ jobStep' \in [Jobs -> Steps \cup {NoStep}]
          /\ batch' \in [Jobs -> {"none", "pending", "succeeded"}]
          /\ held' = held
      BY <3>1, <3>2, InsertEffect
    <3>4. PICK id \in [A -> FreeIds] :
                /\ \A a, b \in A : id[a] = id[b] => a = b
                /\ \A a \in A : /\ jobStatus'[id[a]] = "pending"
                                /\ jobStep'[id[a]] = owner[a]
                                /\ batch'[id[a]] = "pending"
                /\ \A j \in Jobs : j \notin {id[a] : a \in A} =>
                      /\ jobStatus'[j] = jobStatus[j]
                      /\ jobStep'[j] = jobStep[j]
                      /\ batch'[j] = batch[j]
      BY <3>1, <3>2, InsertEffect
    <3> HIDE DEF s
    <3>5. \A j \in Jobs :
             \/ /\ jobStatus[j] = "none" /\ jobStatus'[j] = "pending"
                /\ jobStep'[j] = s /\ batch'[j] = "pending"
             \/ /\ jobStatus'[j] = jobStatus[j]
                /\ jobStep'[j] = jobStep[j] /\ batch'[j] = batch[j]
      BY <3>a, <3>4 DEF FreeIds
    <3>6. \A t \in Steps : StepJobs(t)' \subseteq StepJobs(t)
      BY <3>5 DEF StepJobs, BatchesOf, JobsOf, Q!Exists
    <3>7. SingleDispatch' /\ ReadyStepsHaveNoJob'
      BY <2>1, <3>6 DEF SingleDispatch, ReadyStepsHaveNoJob, Types
    <3>8. JobsHaveRuns'
      BY <2>1, <2>2, <3>5 DEF JobsHaveRuns
    <3>9. /\ WorkersHaveJobs'
          /\ pc' \in [Workers -> Statements]
          /\ task' \in [Workers -> Jobs \cup {NoJob}]
      BY <1>3, <2>1, <3>1, <3>5 DEF Statements
    <3>10. Types'
      BY <2>1, <3>3, <3>9 DEF Types
    <3> QED
      BY <2>3, <3>7, <3>8, <3>9, <3>10
  <2> QED
    BY <2>4, <2>5
<1> QED
  BY <1>1, <1>4, <1>5, <1>6, <1>7, <1>8 DEF Handle

\* The supervisor condemns only steps that have a job.
LEMMA SupervisorKeeps ==
    ASSUME DispatchInv, RequeueOrphans \/ FailOrphanedSteps
    PROVE  DispatchInv'
<1> USE DEF DispatchInv
<1>1. Shrinks
  BY QueueStepsShrink DEF RequeueOrphans, FailOrphanedSteps
<1>2. /\ UNCHANGED <<jobStep, batch, runStatus, ready, verdict, held, pc, task>>
  BY DEF RequeueOrphans, FailOrphanedSteps, Q!RequeueOrphans, queueVars, jobVars, tableVars,
         workerVars, loopVars
<1>3. WorkersHaveJobs'
  BY <1>1, <1>2 DEF WorkersHaveJobs, Shrinks
<1>4. \A s \in Condemned : s \in Steps /\ runStatus[RunOf[s]] # "none"
  BY DEF Condemned, HasStatus, StepJobs, JobsOf, JobsHaveRuns, Q!Exists
<1>5. stepStatus' \in [Steps -> StepStatuses] /\ StepsHaveRuns'
  BY <1>2, <1>4
     DEF RequeueOrphans, FailOrphanedSteps, StepsHaveRuns, tableVars, Types, StepStatuses
<1>6. Types'
  BY <1>1, <1>2, <1>5 DEF Types, Shrinks
<1> QED
  BY <1>1, <1>2, <1>3, <1>5, <1>6, ShrinkingStep

\* The dispatcher's query finds steps without a job of their own, and its
\* insert is for one of those.
LEMMA DispatcherKeeps == ASSUME DispatchInv, Dispatch PROVE DispatchInv'
<1> USE DEF DispatchInv
<1>1. CASE DispatchSelect
  <2>1. /\ ready' = {s \in Steps : Dispatchable(s)}
        /\ UNCHANGED <<jobStatus, held, jobStep, batch, runStatus, stepStatus, verdict, pc, task>>
    BY <1>1 DEF DispatchSelect, queueVars, jobVars, tableVars, workerVars
  <2>2. \A s \in Steps : StepJobs(s)' = StepJobs(s)
    BY <2>1 DEF StepJobs, BatchesOf, JobsOf, Q!Exists
  <2>3. ReadyStepsHaveNoJob'
    BY <2>1, <2>2 DEF ReadyStepsHaveNoJob, Dispatchable, StepsHaveRuns
  <2>4. Types'
    BY <2>1 DEF Types
  <2> QED
    BY <2>1, <2>2, <2>3, <2>4
       DEF SingleDispatch, JobsHaveRuns, StepsHaveRuns, WorkersHaveJobs
<1>2. ASSUME NEW s \in Steps, DispatchEnqueue(s) PROVE DispatchInv'
  <2>1. /\ s \in ready /\ ready' = ready \ {s}
        /\ InsertStepJobs({s})
        /\ UNCHANGED <<runStatus, stepStatus, verdict, pc, task>>
    BY <1>2 DEF DispatchEnqueue, tableVars, workerVars
  <2>2. StepJobs(s) = {} /\ runStatus[RunOf[s]] # "none"
    BY <2>1 DEF ReadyStepsHaveNoJob
  <2>3. /\ jobStatus' \in [Jobs -> Q!Statuses]
        /\ jobStep' \in [Jobs -> Steps \cup {NoStep}]
        /\ batch' \in [Jobs -> {"none", "pending", "succeeded"}]
        /\ held' = held
        /\ SingleDispatch'
        /\ \A t \in Steps \ {s} : StepJobs(t)' = StepJobs(t)
        /\ \A j \in Jobs : jobStatus[j] # "none" =>
               jobStatus'[j] # "none" /\ jobStep'[j] = jobStep[j]
        /\ \A j \in Jobs : jobStatus'[j] # "none" =>
               jobStatus[j] # "none" \/ jobStep'[j] \in {s}
    <3>1. {s} \in SUBSET Steps /\ \A t \in {s} : StepJobs(t) = {}
      BY <2>2
    <3> QED
      BY <2>1, <3>1, InsertStepJobsKeeps
  <2>4. Types'
    BY <2>1, <2>3 DEF Types
  <2>5. JobsHaveRuns' /\ StepsHaveRuns' /\ WorkersHaveJobs'
    BY <2>1, <2>2, <2>3 DEF JobsHaveRuns, StepsHaveRuns, WorkersHaveJobs
  <2>6. ReadyStepsHaveNoJob'
    BY <2>1, <2>3 DEF ReadyStepsHaveNoJob, Types
  <2> QED
    BY <2>3, <2>4, <2>5, <2>6
<1> QED
  BY <1>1, <1>2 DEF Dispatch

\* The watcher, crashes and time do not insert jobs.
LEMMA EnvironmentKeeps ==
    ASSUME DispatchInv,
           \/ Watch \/ Crash \/ UNCHANGED vars
           \/ \E j \in Jobs : BackoffElapses(j) \/ LockExpires(j)
    PROVE  DispatchInv'
<1> USE DEF DispatchInv
<1>1. Shrinks
  BY QueueStepsShrink
     DEF Watch, WatchSelect, WatchCount, WatchWrite, Crash, BackoffElapses, LockExpires, vars
<1>2. UNCHANGED <<jobStep, batch, stepStatus>>
  BY DEF Watch, WatchSelect, WatchCount, WatchWrite, Crash, BackoffElapses, LockExpires, vars,
         jobVars, tableVars
<1>3. held' \in [Workers -> Jobs \cup {NoJob}]
  BY DEF Watch, WatchSelect, WatchCount, WatchWrite, Crash, BackoffElapses, LockExpires, vars,
         queueVars, Q!Abandon, Q!BackoffElapses, Q!LockExpires, Types
<1>4. /\ ready' \subseteq ready
      /\ \/ UNCHANGED <<pc, task>>
         \/ pc' = [v \in Workers |-> "idle"] /\ task' = [v \in Workers |-> NoJob]
  BY DEF Watch, WatchSelect, WatchCount, WatchWrite, Crash, BackoffElapses, LockExpires, vars,
         workerVars, loopVars
<1>5. WorkersHaveJobs'
  BY <1>1, <1>4 DEF WorkersHaveJobs, Shrinks
<1>6. /\ runStatus' \in [Runs -> RunStatuses]
      /\ \A r \in Runs : runStatus[r] # "none" => runStatus'[r] # "none"
  <2>1. CASE WatchWrite
    <3>1. PICK v \in verdict : runStatus' = [runStatus EXCEPT ![v[1]] = v[2]]
      BY <2>1 DEF WatchWrite
    <3>2. v[2] \in RunStatuses \ {"none"}
      BY <3>1 DEF RunStatuses, Types
    <3> QED
      BY <3>1, <3>2 DEF Types
  <2>2. CASE UNCHANGED runStatus
    BY <2>2 DEF Types
  <2> QED
    BY <2>1, <2>2
       DEF Watch, WatchSelect, WatchCount, Crash, BackoffElapses, LockExpires, vars, tableVars
<1>7. StepsHaveRuns'
  BY <1>2, <1>6, StepAssumption DEF StepsHaveRuns
<1>8. verdict' \in SUBSET (Runs \X {"succeeded", "failed"})
  <2>1. ASSUME NEW r \in Runs, WatchCount(r)
        PROVE  verdict' \in SUBSET (Runs \X {"succeeded", "failed"})
    <3>1. verdict' \in {{<<r, "succeeded">>}, {<<r, "failed">>}, {}}
      BY <2>1 DEF WatchCount
    <3> QED
      BY <3>1
  <2>2. CASE verdict' \in {verdict, {}}
    BY <2>2 DEF Types
  <2> QED
    BY <2>1, <2>2
       DEF Watch, WatchSelect, WatchWrite, Crash, BackoffElapses, LockExpires, vars, loopVars
<1>9. Types'
  BY <1>1, <1>2, <1>3, <1>4, <1>6, <1>8 DEF Types, Shrinks, Statements
<1> QED
  BY <1>1, <1>2, <1>4, <1>5, <1>6, <1>7, <1>9, ShrinkingStep

\* Every step of the program keeps the invariant.
LEMMA NextDispatchInv == DispatchInv /\ [Next]_vars => DispatchInv'
<1> SUFFICES ASSUME DispatchInv, [Next]_vars PROVE DispatchInv'
  OBVIOUS
<1> QED
  BY StartRunKeeps, ApiKeeps, WorkerKeeps, SupervisorKeeps, DispatcherKeeps, EnvironmentKeeps
     DEF Next

\* No step ever has two jobs of its own, however many crashes, retries and
\* replays come between the dispatcher's test and its insert.
THEOREM NoDoubleDispatch == Spec => []SingleDispatch
<1>1. DispatchInv => SingleDispatch
  BY DEF DispatchInv
<1> QED
  BY <1>1, InitDispatchInv, NextDispatchInv, PTL DEF Spec

-----------------------------------------------------------------------------
(* No batch of a table is left behind.                                     *)
(*                                                                         *)
(* Without replays, which delete rows, the batches of a table are inserted *)
(* together, once, and only ever copied.  So that "all of them copied",    *)
(* once true, stays true, and what a worker saw of it before its last      *)
(* statement still holds when it executes it: whatever crashes, expires,   *)
(* is lost, killed or reset in between.                                    *)

NoReplay == "replay" \notin Operations

AllCopied(s) ==
    BatchesOf(s) # {} /\ \A j \in BatchesOf(s) : batch[j] = "succeeded"

NothingDeleted == \A j \in Jobs : jobStatus[j] # "deleted"

BatchRowsHaveJobs == \A j \in Jobs : batch[j] # "none" => jobStatus[j] # "none"

\* hCopyTable's transaction inserts every batch of the step, if it has none.
AllOrNoBatches ==
    \A s \in Steps : BatchesOf(s) # {} => Cardinality(BatchesOf(s)) = NBatches[s]

\* The tables s depends on are copied.
DataBefore(s) == \A d \in Deps[s] : NBatches[d] > 0 => AllCopied(d)

JobsFollowData == \A j \in Jobs : jobStatus[j] # "none" => DataBefore(jobStep[j])
ReadyFollowsData == \A s \in ready : DataBefore(s)

SucceededIsCopied ==
    \A s \in Steps : stepStatus[s] = "succeeded" /\ NBatches[s] > 0 => AllCopied(s)

\* A worker that reports on a copy_table step has seen its batches, and one
\* that is about to finish the step has seen all of them copied.
Witnessed(w) ==
    /\ pc[w] = "batchDone" => batch[task[w]] # "none"
    /\ pc[w] \in {"succeed", "hasBatches", "count", "finish"} /\ NBatches[StepOf(w)] > 0 =>
          BatchesOf(StepOf(w)) # {}
    /\ pc[w] = "finish" /\ NBatches[StepOf(w)] > 0 => AllCopied(StepOf(w))

BatchInv ==
    /\ NothingDeleted /\ BatchRowsHaveJobs /\ AllOrNoBatches
    /\ JobsFollowData /\ ReadyFollowsData /\ SucceededIsCopied
    /\ \A w \in Workers : Witnessed(w)

\* What is there stays: the batches of a step that has some, copied batches,
\* and with them all that depends on them.
BatchesStay ==
    /\ \A s \in Steps : BatchesOf(s) # {} => BatchesOf(s)' = BatchesOf(s)
    /\ \A j \in Jobs : batch[j] # "none" => batch'[j] # "none"
    /\ \A j \in Jobs : batch[j] = "succeeded" => batch'[j] = "succeeded"

\* Tables that are copied stay copied.
LEMMA CopiedStays ==
    ASSUME BatchesStay, NEW s \in Steps
    PROVE  /\ AllCopied(s) => AllCopied(s)'
           /\ DataBefore(s) => DataBefore(s)'
BY StepAssumption DEF BatchesStay, AllCopied, DataBefore, BatchesOf, JobsOf

\* No operation of the queue but Delete deletes a row.
LEMMA OnlyDeleteDeletes ==
    ASSUME Types, NothingDeleted,
           \/ \E w \in Workers, j \in Jobs : Q!Claim(w, j)
           \/ \E w \in Workers : Q!Succeed(w) \/ Q!Fail(w) \/ Q!Abandon({w})
           \/ Q!RequeueOrphans
           \/ \E S \in SUBSET Jobs : Q!Reset(S) \/ Q!Kill(S)
           \/ Q!Abandon(Workers)
           \/ \E j \in Jobs : Q!BackoffElapses(j) \/ Q!LockExpires(j)
           \/ UNCHANGED queueVars
    PROVE  NothingDeleted'
<1> USE QueueAssumption DEF Types, NothingDeleted, Q!Statuses
<1>1. ASSUME NEW w \in Workers, NEW j \in Jobs, Q!Claim(w, j) PROVE NothingDeleted'
  BY <1>1 DEF Q!Claim
<1>2. ASSUME NEW w \in Workers, Q!Succeed(w) \/ Q!Fail(w) PROVE NothingDeleted'
  BY <1>2 DEF Q!Succeed, Q!Fail, Q!Exists, Q!AfterFailure
<1>3. CASE Q!RequeueOrphans
  BY <1>3 DEF Q!RequeueOrphans, Q!Orphans, Q!AfterFailure
<1>4. ASSUME NEW S \in SUBSET Jobs, Q!Reset(S) \/ Q!Kill(S) PROVE NothingDeleted'
  <2>1. CASE Q!Reset(S)
    BY <2>1 DEF Q!Reset
  <2>2. CASE Q!Kill(S)
    BY <2>2 DEF Q!Kill
  <2> QED
    BY <1>4, <2>1, <2>2
<1>5. ASSUME NEW W, Q!Abandon(W) PROVE NothingDeleted'
  BY <1>5 DEF Q!Abandon, Q!rows
<1>6. ASSUME NEW j \in Jobs, Q!BackoffElapses(j) \/ Q!LockExpires(j) PROVE NothingDeleted'
  BY <1>6 DEF Q!BackoffElapses, Q!LockExpires
<1>7. CASE UNCHANGED queueVars
  BY <1>7 DEF queueVars
<1> QED
  BY <1>1, <1>2, <1>3, <1>4, <1>5, <1>6, <1>7

\* A step that inserts no job and takes no batch back.
LEMMA QuietStep ==
    ASSUME DispatchInv, BatchInv, Types', Shrinks, NothingDeleted', jobStep' = jobStep,
           \A j \in Jobs : \/ batch'[j] = batch[j]
                           \/ batch[j] # "none" /\ batch'[j] = "succeeded"
    PROVE  /\ \A s \in Steps : BatchesOf(s)' = BatchesOf(s)
           /\ BatchesStay /\ BatchRowsHaveJobs' /\ AllOrNoBatches' /\ JobsFollowData'
<1> USE DEF BatchInv, DispatchInv
<1>1. \A s \in Steps : BatchesOf(s)' = BatchesOf(s)
  BY DEF BatchesOf, JobsOf, Q!Exists, NothingDeleted, Shrinks
<1>2. BatchesStay
  BY <1>1 DEF BatchesStay
<1>3. BatchRowsHaveJobs'
  BY DEF BatchRowsHaveJobs, Shrinks
<1>4. AllOrNoBatches'
  BY <1>1 DEF AllOrNoBatches
<1>5. JobsFollowData'
  BY <1>2, CopiedStays DEF JobsFollowData, JobsHaveRuns, Shrinks
<1> QED
  BY <1>1, <1>2, <1>3, <1>4, <1>5

\* What a worker has seen still holds at its next statement.
LEMMA WitnessedStays ==
    ASSUME DispatchInv, BatchesStay, NEW w \in Workers, Witnessed(w),
           pc'[w] = pc[w], task'[w] = task[w],
           \A j \in Jobs : jobStatus[j] # "none" => jobStep'[j] = jobStep[j]
    PROVE  Witnessed(w)'
<1>1. CASE pc[w] = "idle"
  BY <1>1 DEF Witnessed
<1>2. CASE pc[w] # "idle"
  <2>1. task[w] \in Jobs /\ StepOf(w) \in Steps /\ StepOf(w)' = StepOf(w)
    BY <1>2 DEF DispatchInv, WorkersHaveJobs, JobsHaveRuns, StepOf
  <2>2. BatchesOf(StepOf(w)) # {} => BatchesOf(StepOf(w)') # {}
    BY <2>1 DEF BatchesStay
  <2> QED
    BY <2>1, <2>2, CopiedStays DEF Witnessed, BatchesStay
<1> QED
  BY <1>1, <1>2

\* A step of somebody else than a worker, which inserts no job and finishes no
\* step, keeps the invariant.
LEMMA BystanderKeeps ==
    ASSUME DispatchInv, BatchInv, Types', Shrinks, NothingDeleted',
           UNCHANGED <<jobStep, batch>>,
           ready' \subseteq ready,
           \A s \in Steps : stepStatus'[s] = "succeeded" => stepStatus[s] = "succeeded",
           UNCHANGED <<pc, task>> \/ pc' = [w \in Workers |-> "idle"]
    PROVE  BatchInv'
<1>1. BatchesStay /\ BatchRowsHaveJobs' /\ AllOrNoBatches' /\ JobsFollowData'
  BY QuietStep
<1>2. ReadyFollowsData'
  BY <1>1, CopiedStays DEF BatchInv, ReadyFollowsData, DispatchInv, Types
<1>3. SucceededIsCopied'
  BY <1>1, CopiedStays DEF BatchInv, SucceededIsCopied
<1>4. \A w \in Workers : Witnessed(w)'
  <2>1. CASE UNCHANGED <<pc, task>>
    BY <1>1, <2>1, WitnessedStays DEF BatchInv
  <2>2. CASE pc' = [w \in Workers |-> "idle"]
    BY <2>2 DEF Witnessed
  <2> QED
    BY <2>1, <2>2
<1> QED
  BY <1>1, <1>2, <1>3, <1>4 DEF BatchInv

\* The HTTP handlers, but for replays.
LEMMA ApiKeepsBatches ==
    ASSUME NoReplay, DispatchInv, DispatchInv', BatchInv, Api PROVE BatchInv'
<1>1. \/ \E S \in SUBSET Jobs : Q!Reset(S) \/ Q!Kill(S)
      \/ UNCHANGED queueVars
  BY SelectsJobs
     DEF Api, CancelRun, RetryJobs, CancelJobs, RetrySteps, RetryRun, PlayStep, PlayLevel,
         PlaySteps, ReplayStep, ReplayLevel, ReplaySteps, Called, NoReplay
<1>2. UNCHANGED <<jobStep, batch, ready, pc, task>>
  BY DEF Api, CancelRun, RetryJobs, CancelJobs, RetrySteps, RetryRun, PlayStep, PlayLevel,
         PlaySteps, ReplayStep, ReplayLevel, ReplaySteps, jobVars, workerVars, loopVars
<1>3. \A s \in Steps : stepStatus'[s] = "succeeded" => stepStatus[s] = "succeeded"
  <2>1. ASSUME NEW r, NEW P, PlaySteps(r, P)
        PROVE  \A s \in Steps : stepStatus'[s] = "succeeded" => stepStatus[s] = "succeeded"
    BY <2>1 DEF PlaySteps
  <2>2. ASSUME NEW c, RetrySteps(c)
        PROVE  \A s \in Steps : stepStatus'[s] = "succeeded" => stepStatus[s] = "succeeded"
    BY <2>2 DEF RetrySteps
  <2> QED
    BY <2>1, <2>2
       DEF Api, CancelRun, RetryJobs, CancelJobs, RetryRun, PlayStep, PlayLevel,
           ReplayStep, ReplayLevel, ReplaySteps, Called, NoReplay, tableVars
<1>4. Shrinks /\ NothingDeleted'
  BY <1>1, QueueStepsShrink, OnlyDeleteDeletes DEF DispatchInv, BatchInv
<1> QED
  BY <1>2, <1>3, <1>4, BystanderKeeps DEF DispatchInv

\* The supervisor, the watcher, crashes and time.
LEMMA EnvironmentKeepsBatches ==
    ASSUME DispatchInv, DispatchInv', BatchInv,
           \/ RequeueOrphans \/ FailOrphanedSteps \/ Watch \/ Crash \/ UNCHANGED vars
           \/ \E j \in Jobs : BackoffElapses(j) \/ LockExpires(j)
    PROVE  BatchInv'
<1> USE DEF RequeueOrphans, FailOrphanedSteps, Watch, WatchSelect, WatchCount, WatchWrite, Crash,
            BackoffElapses, LockExpires, vars
<1>1. Shrinks /\ NothingDeleted'
  BY QueueStepsShrink, OnlyDeleteDeletes DEF DispatchInv, BatchInv
<1>2. UNCHANGED <<jobStep, batch>> /\ ready' \subseteq ready
  BY DEF jobVars, loopVars
<1>3. \A s \in Steps : stepStatus'[s] = "succeeded" => stepStatus[s] = "succeeded"
  BY DEF tableVars
<1>4. UNCHANGED <<pc, task>> \/ pc' = [w \in Workers |-> "idle"]
  BY DEF workerVars
<1> QED
  BY <1>1, <1>2, <1>3, <1>4, BystanderKeeps DEF DispatchInv

\* A transaction that inserts step jobs for S changes no batch.
LEMMA InsertStepJobsKeepsBatches ==
    ASSUME DispatchInv, BatchInv, NEW S \in SUBSET Steps, InsertStepJobs(S)
    PROVE  /\ BatchesStay /\ NothingDeleted' /\ BatchRowsHaveJobs' /\ AllOrNoBatches'
           /\ \A j \in Jobs : jobStatus[j] # "none" => jobStep'[j] = jobStep[j]
           /\ (\A s \in S : DataBefore(s)) => JobsFollowData'
<1> DEFINE owner == [s \in S |-> s]
<1>1. owner \in [S -> Steps] /\ Types /\ InsertJobs(owner, "none")
  BY DEF InsertStepJobs, DispatchInv
<1>2. PICK id \in [S -> FreeIds] :
                /\ \A a, b \in S : id[a] = id[b] => a = b
                /\ \A a \in S : /\ jobStatus'[id[a]] = "pending"
                                /\ jobStep'[id[a]] = owner[a]
                                /\ batch'[id[a]] = "none"
                /\ \A j \in Jobs : j \notin {id[a] : a \in S} =>
                      /\ jobStatus'[j] = jobStatus[j]
                      /\ jobStep'[j] = jobStep[j]
                      /\ batch'[j] = batch[j]
  BY <1>1, InsertEffect
<1>3. \A j \in Jobs :
         \/ /\ jobStatus[j] = "none" /\ jobStatus'[j] = "pending"
            /\ jobStep'[j] \in S /\ batch[j] = "none" /\ batch'[j] = "none"
         \/ /\ jobStatus'[j] = jobStatus[j]
            /\ jobStep'[j] = jobStep[j] /\ batch'[j] = batch[j]
  BY <1>2 DEF FreeIds, BatchInv, BatchRowsHaveJobs
<1>4. \A s \in Steps : BatchesOf(s)' = BatchesOf(s)
  BY <1>3 DEF BatchesOf, JobsOf, Q!Exists
<1>5. BatchesStay
  BY <1>3, <1>4 DEF BatchesStay
<1>6. NothingDeleted' /\ BatchRowsHaveJobs'
  BY <1>3 DEF BatchInv, NothingDeleted, BatchRowsHaveJobs
<1>7. AllOrNoBatches'
  BY <1>4 DEF BatchInv, AllOrNoBatches
<1>8. (\A s \in S : DataBefore(s)) => JobsFollowData'
  BY <1>3, <1>5, CopiedStays DEF BatchInv, JobsFollowData, DispatchInv, JobsHaveRuns
<1> QED
  BY <1>3, <1>5, <1>6, <1>7, <1>8

\* startRun enqueues steps that depend on nothing, the dispatcher steps whose
\* dependencies have succeeded.
LEMMA InsertersKeepBatches ==
    ASSUME DispatchInv, DispatchInv', BatchInv,
           (\E r \in Runs, mode \in Modes : StartRun(r, mode)) \/ Dispatch
    PROVE  BatchInv'
<1>1. ASSUME NEW S \in SUBSET Steps, InsertStepJobs(S), \A s \in S : DataBefore(s),
             UNCHANGED <<pc, task>>, ready' \subseteq ready,
             \A s \in Steps : stepStatus'[s] = "succeeded" => stepStatus[s] = "succeeded"
      PROVE  BatchInv'
  <2>1. /\ BatchesStay /\ NothingDeleted' /\ BatchRowsHaveJobs' /\ AllOrNoBatches'
        /\ \A j \in Jobs : jobStatus[j] # "none" => jobStep'[j] = jobStep[j]
        /\ JobsFollowData'
    BY <1>1, InsertStepJobsKeepsBatches
  <2>2. ReadyFollowsData'
    BY <1>1, <2>1, CopiedStays DEF BatchInv, ReadyFollowsData, DispatchInv, Types
  <2>3. SucceededIsCopied'
    BY <1>1, <2>1, CopiedStays DEF BatchInv, SucceededIsCopied
  <2>4. \A w \in Workers : Witnessed(w)'
    BY <1>1, <2>1, WitnessedStays DEF BatchInv
  <2> QED
    BY <2>1, <2>2, <2>3, <2>4 DEF BatchInv
<1>2. ASSUME NEW r \in Runs, NEW mode \in Modes, StartRun(r, mode) PROVE BatchInv'
  <2> DEFINE S == {s \in StepsOf(r) : mode = "auto" /\ Deps[s] = {}}
  <2>1. S \in SUBSET Steps /\ InsertStepJobs(S) /\ \A s \in S : DataBefore(s)
    BY <1>2 DEF StartRun, StepsOf, DataBefore
  <2>2. /\ UNCHANGED <<pc, task, ready>>
        /\ \A s \in Steps : stepStatus'[s] = "succeeded" => stepStatus[s] = "succeeded"
    BY <1>2 DEF StartRun, workerVars, loopVars
  <2> QED
    BY <1>1, <2>1, <2>2
<1>3. ASSUME NEW s \in Steps, DispatchEnqueue(s) PROVE BatchInv'
  <2>1. {s} \in SUBSET Steps /\ InsertStepJobs({s}) /\ \A t \in {s} : DataBefore(t)
    BY <1>3 DEF DispatchEnqueue, BatchInv, ReadyFollowsData
  <2>2. UNCHANGED <<pc, task, stepStatus>> /\ ready' \subseteq ready
    BY <1>3 DEF DispatchEnqueue, workerVars, tableVars
  <2> QED
    BY <1>1, <2>1, <2>2
<1>4. CASE DispatchSelect
  <2>1. /\ UNCHANGED <<jobStatus, jobStep, batch, stepStatus, pc, task>>
        /\ ready' = {s \in Steps : Dispatchable(s)}
    BY <1>4 DEF DispatchSelect, queueVars, jobVars, tableVars, workerVars
  <2>2. \A s \in Steps : Dispatchable(s) => DataBefore(s)
    BY StepAssumption
       DEF Dispatchable, DepsSucceeded, DataBefore, BatchInv, SucceededIsCopied
  <2>3. \A s \in Steps : BatchesOf(s)' = BatchesOf(s) /\ AllCopied(s)' = AllCopied(s)
                         /\ DataBefore(s)' = DataBefore(s)
    BY <2>1, StepAssumption DEF BatchesOf, JobsOf, Q!Exists, AllCopied, DataBefore
  <2>4. ReadyFollowsData'
    BY <2>1, <2>2, <2>3 DEF ReadyFollowsData
  <2>5. BatchesStay
    BY <2>1, <2>3 DEF BatchesStay
  <2>6. \A w \in Workers : Witnessed(w)'
    BY <2>1, <2>5, WitnessedStays DEF BatchInv
  <2>7. NothingDeleted' /\ BatchRowsHaveJobs' /\ AllOrNoBatches'
    BY <2>1, <2>3 DEF BatchInv, NothingDeleted, BatchRowsHaveJobs, AllOrNoBatches
  <2>8. JobsFollowData' /\ SucceededIsCopied'
    BY <2>1, <2>3
       DEF BatchInv, JobsFollowData, SucceededIsCopied, DispatchInv, JobsHaveRuns
  <2> QED
    BY <2>4, <2>6, <2>7, <2>8 DEF BatchInv
<1> QED
  BY <1>2, <1>3, <1>4 DEF Dispatch

\* A statement of worker w that inserts nothing keeps the invariant if w has
\* seen what its next statement relies on.
LEMMA WorkerMoves ==
    ASSUME DispatchInv, BatchInv, Types', Shrinks, NothingDeleted',
           NEW w \in Workers, Witnessed(w)',
           \A v \in Workers \ {w} : pc'[v] = pc[v] /\ task'[v] = task[v],
           jobStep' = jobStep,
           \A j \in Jobs : \/ batch'[j] = batch[j]
                           \/ batch[j] # "none" /\ batch'[j] = "succeeded",
           ready' = ready,
           \A s \in Steps : stepStatus'[s] = "succeeded" =>
              stepStatus[s] = "succeeded" \/ (NBatches[s] > 0 => AllCopied(s))
    PROVE  BatchInv'
<1>1. BatchesStay /\ BatchRowsHaveJobs' /\ AllOrNoBatches' /\ JobsFollowData'
  BY QuietStep
<1>2. ReadyFollowsData'
  BY <1>1, CopiedStays DEF BatchInv, ReadyFollowsData, DispatchInv, Types
<1>3. SucceededIsCopied'
  BY <1>1, CopiedStays DEF BatchInv, SucceededIsCopied
<1>4. \A v \in Workers : Witnessed(v)'
  BY <1>1, WitnessedStays DEF BatchInv
<1> QED
  BY <1>1, <1>2, <1>3, <1>4 DEF BatchInv

\* An image of 1..n under an injection has n members.
LEMMA NamedSize ==
    ASSUME NEW n \in Nat, NEW id \in [1..n -> Jobs],
           \A a, b \in 1..n : id[a] = id[b] => a = b
    PROVE  Cardinality({id[a] : a \in 1..n}) = n
<1> DEFINE new == {id[a] : a \in 1..n}
<1>1. IsFiniteSet(1..n) /\ Cardinality(1..n) = n
  BY FS_Interval
<1>2. id \in Bijection(1..n, new)
  BY DEF Bijection, Injection, Surjection, IsInjective
<1>3. ExistsBijection(1..n, new)
  BY <1>2 DEF ExistsBijection
<1> QED
  BY <1>1, <1>3, FS_Bijection

\* hCopyTable's transaction, on a step without batches: all of them at once.
LEMMA CopyTableInserts ==
    ASSUME DispatchInv, BatchInv, NEW s \in Steps, BatchesOf(s) = {}, DataBefore(s),
           InsertJobs([i \in 1..NBatches[s] |-> s], "pending")
    PROVE  /\ BatchesStay /\ NothingDeleted' /\ BatchRowsHaveJobs' /\ AllOrNoBatches'
           /\ \A j \in Jobs : jobStatus[j] # "none" => jobStep'[j] = jobStep[j]
           /\ JobsFollowData'
           /\ NBatches[s] > 0 => BatchesOf(s)' # {}
<1> DEFINE A == 1..NBatches[s]
           owner == [i \in A |-> s]
<1>0. NBatches[s] \in Nat
  BY StepAssumption
<1>1. owner \in [A -> Steps] /\ Types /\ InsertJobs(owner, "pending")
  BY DEF DispatchInv
<1>a. \A a \in A : owner[a] = s
  OBVIOUS
<1> HIDE DEF owner
<1>2. PICK id \in [A -> FreeIds] :
                /\ \A a, b \in A : id[a] = id[b] => a = b
                /\ \A a \in A : /\ jobStatus'[id[a]] = "pending"
                                /\ jobStep'[id[a]] = owner[a]
                                /\ batch'[id[a]] = "pending"
                /\ \A j \in Jobs : j \notin {id[a] : a \in A} =>
                      /\ jobStatus'[j] = jobStatus[j]
                      /\ jobStep'[j] = jobStep[j]
                      /\ batch'[j] = batch[j]
  <2> HIDE DEF A
  <2> QED
    BY <1>1, InsertEffect
<1> DEFINE new == {id[a] : a \in A}
<1>3. Cardinality(new) = NBatches[s]
  <2>1. id \in [1..NBatches[s] -> Jobs]
    BY <1>2 DEF FreeIds
  <2> QED
    BY <1>0, <1>2, <2>1, NamedSize
<1>b. 1 \in A \/ ~(NBatches[s] > 0)
  BY <1>0
<1> HIDE DEF A
<1>4. \A j \in Jobs :
         \/ /\ j \in new /\ jobStatus[j] = "none" /\ jobStatus'[j] = "pending"
            /\ jobStep'[j] = s /\ batch[j] = "none" /\ batch'[j] = "pending"
         \/ /\ j \notin new /\ jobStatus'[j] = jobStatus[j]
            /\ jobStep'[j] = jobStep[j] /\ batch'[j] = batch[j]
  BY <1>a, <1>2 DEF FreeIds, BatchInv, BatchRowsHaveJobs
<1>5. new \subseteq Jobs
  BY <1>2 DEF FreeIds
<1>c. NBatches[s] > 0 => new # {}
  BY <1>b
<1> HIDE DEF new
<1>6. BatchesOf(s)' = new
  <2>1. new \subseteq BatchesOf(s)'
    BY <1>4, <1>5 DEF BatchesOf, JobsOf, Q!Exists
  <2>2. \A j \in BatchesOf(s)' : j \notin new => j \in BatchesOf(s)
    BY <1>4 DEF BatchesOf, JobsOf, Q!Exists
  <2> QED
    BY <2>1, <2>2
<1>7. \A t \in Steps \ {s} : BatchesOf(t)' = BatchesOf(t)
  BY <1>4 DEF BatchesOf, JobsOf, Q!Exists
<1>8. BatchesStay
  BY <1>4, <1>7 DEF BatchesStay
<1>9. NothingDeleted' /\ BatchRowsHaveJobs'
  BY <1>4 DEF BatchInv, NothingDeleted, BatchRowsHaveJobs
<1>10. AllOrNoBatches'
  BY <1>3, <1>6, <1>7 DEF BatchInv, AllOrNoBatches
<1>11. JobsFollowData'
  BY <1>4, <1>8, CopiedStays DEF BatchInv, JobsFollowData, DispatchInv, JobsHaveRuns
<1> QED
  BY <1>4, <1>6, <1>8, <1>9, <1>10, <1>11, <1>c

\* The statements of a worker.
LEMMA WorkerKeepsBatches ==
    ASSUME DispatchInv, DispatchInv', BatchInv, NEW w \in Workers,
           Handle(w) \/ \E j \in Jobs : ClaimJob(w, j)
    PROVE  BatchInv'
<1>s. PICK s : s = StepOf(w)
  OBVIOUS
<1>0. Types /\ Types'
  BY DEF DispatchInv
<1>1. ASSUME pc[w] # "idle" PROVE task[w] \in Jobs /\ s \in Steps /\ jobStatus[task[w]] # "none"
  BY <1>s, <1>1 DEF DispatchInv, WorkersHaveJobs, JobsHaveRuns, StepOf
<1>w. Witnessed(w)
  BY DEF BatchInv
<1>2. ASSUME NEW j \in Jobs, ClaimJob(w, j) PROVE BatchInv'
  <2>1. Shrinks /\ NothingDeleted'
    BY <1>0, <1>2, QueueStepsShrink, OnlyDeleteDeletes DEF ClaimJob, BatchInv
  <2>2. /\ pc' = [pc EXCEPT ![w] = "start"] /\ task' = [task EXCEPT ![w] = j]
        /\ UNCHANGED <<jobStep, batch, stepStatus, ready>>
    BY <1>2 DEF ClaimJob, GoTo, jobVars, tableVars, loopVars
  <2>3. Witnessed(w)'
    BY <1>0, <2>2 DEF Witnessed, Types
  <2> QED
    BY <1>0, <2>1, <2>2, <2>3, WorkerMoves DEF Types
<1>3. CASE StartStep(w) \/ ExecError(w) \/ FailJob(w) \/ FailStep(w)
  <2>1. Shrinks /\ NothingDeleted'
    BY <1>0, <1>3, QueueStepsShrink, OnlyDeleteDeletes
       DEF StartStep, ExecError, FailJob, FailStep, BatchInv
  <2>2. /\ \E next \in {"exec", "fail", "failStep", "idle"} : pc' = [pc EXCEPT ![w] = next]
        /\ task' = task \/ task' = [task EXCEPT ![w] = NoJob]
        /\ UNCHANGED <<jobStep, batch, ready>>
    BY <1>3 DEF StartStep, ExecError, FailJob, FailStep, GoTo, Return, jobVars, loopVars
  <2>3. Witnessed(w)'
    BY <1>0, <2>2 DEF Witnessed, Types
  <2>4. \A t \in Steps : stepStatus'[t] = "succeeded" => stepStatus[t] = "succeeded"
    BY <1>0, <1>1, <1>3 DEF StartStep, ExecError, FailJob, FailStep, tableVars, Types, At
  <2> QED
    BY <1>0, <2>1, <2>2, <2>3, <2>4, WorkerMoves DEF Types
<1>4. CASE ExecHandler(w) \/ HasBatches(w) \/ CountUnfinished(w)
  <2>1. UNCHANGED <<queueVars, jobStep, batch, stepStatus, ready>> /\ pc[w] # "idle"
    BY <1>4 DEF ExecHandler, HasBatches, CountUnfinished, At, jobVars, tableVars, loopVars
  <2>2. Shrinks /\ NothingDeleted'
    BY <1>0, <2>1, QueueStepsShrink, OnlyDeleteDeletes DEF BatchInv
  <2>3. /\ \A v \in Workers \ {w} : pc'[v] = pc[v] /\ task'[v] = task[v]
        /\ pc'[w] # "idle" => StepOf(w)' = s /\ task'[w] = task[w]
    BY <1>s, <1>0, <1>4, <2>1
       DEF ExecHandler, HasBatches, CountUnfinished, GoTo, Return, Types, StepOf
  <2>4. BatchesOf(s)' = BatchesOf(s)
    BY <1>1, <2>1, <2>2, QuietStep, <1>0
  <2>5. AllCopied(s)' = AllCopied(s)
    BY <2>1, <2>4 DEF AllCopied, BatchesOf, JobsOf
  <2>6. Witnessed(w)'
    <3>1. CASE ExecHandler(w)
      <4>1. IF batch[task[w]] = "none" THEN pc'[w] = "succeed" /\ ~(NBatches[s] > 0)
                                       ELSE pc'[w] = "batchDone"
        BY <1>s, <1>0, <3>1 DEF ExecHandler, IsCopyTable, GoTo, Types, StepOf
      <4> QED
        BY <2>1, <2>3, <4>1 DEF Witnessed
    <3>2. CASE HasBatches(w)
      <4>1. /\ pc[w] = "hasBatches"
            /\ IF BatchesOf(s) = {} THEN pc'[w] = "finish" ELSE pc'[w] = "count"
        BY <1>s, <1>0, <3>2 DEF HasBatches, At, GoTo, Types
      <4> QED
        BY <1>s, <2>3, <2>4, <4>1, <1>w DEF Witnessed
    <3>3. CASE CountUnfinished(w)
      <4>1. /\ pc[w] = "count"
            /\ IF Unfinished(s) = {} THEN pc'[w] = "finish" ELSE pc'[w] = "idle"
        BY <1>s, <1>0, <3>3 DEF CountUnfinished, At, GoTo, Return, Types
      <4>2. Unfinished(s) = {} /\ BatchesOf(s) # {} => AllCopied(s)
        BY DEF Unfinished, AllCopied
      <4>3. NBatches[s] > 0 => BatchesOf(s) # {}
        BY <1>s, <4>1, <1>w DEF Witnessed
      <4> QED
        BY <2>3, <2>4, <2>5, <4>1, <4>2, <4>3 DEF Witnessed
    <3> QED
      BY <1>4, <3>1, <3>2, <3>3
  <2> QED
    BY <1>0, <2>1, <2>2, <2>3, <2>6, WorkerMoves
<1>5. CASE FinishStep(w)
  <2>1. /\ UNCHANGED <<queueVars, jobStep, batch, ready>> /\ pc[w] = "finish"
        /\ stepStatus' = [stepStatus EXCEPT ![s] = "succeeded"]
        /\ pc' = [pc EXCEPT ![w] = "idle"] /\ task' = [task EXCEPT ![w] = NoJob]
    BY <1>s, <1>5 DEF FinishStep, At, GoTo, Return, jobVars, loopVars
  <2>2. Shrinks /\ NothingDeleted'
    BY <1>0, <2>1, QueueStepsShrink, OnlyDeleteDeletes DEF BatchInv
  <2>3. NBatches[s] > 0 => AllCopied(s)
    BY <1>s, <2>1, <1>w DEF Witnessed
  <2>4. Witnessed(w)'
    BY <1>0, <2>1 DEF Witnessed, Types
  <2>5. \A t \in Steps : stepStatus'[t] = "succeeded" =>
              stepStatus[t] = "succeeded" \/ (NBatches[t] > 0 => AllCopied(t))
    BY <1>0, <2>1, <2>3 DEF Types
  <2> QED
    BY <1>0, <2>1, <2>2, <2>4, <2>5, WorkerMoves DEF Types
<1>6. CASE BatchDone(w)
  <2>1. /\ UNCHANGED <<queueVars, jobStep, stepStatus, ready, task>> /\ pc[w] = "batchDone"
        /\ batch' = [batch EXCEPT ![task[w]] = "succeeded"]
        /\ pc' = [pc EXCEPT ![w] = "succeed"]
    BY <1>6 DEF BatchDone, At, GoTo, tableVars, loopVars
  <2>2. Shrinks /\ NothingDeleted'
    BY <1>0, <2>1, QueueStepsShrink, OnlyDeleteDeletes DEF BatchInv
  <2>3. batch[task[w]] # "none" /\ task[w] \in Jobs /\ s \in Steps
    BY <1>1, <1>w, <2>1 DEF Witnessed
  <2>4. \A j \in Jobs : batch'[j] = batch[j] \/ (batch[j] # "none" /\ batch'[j] = "succeeded")
    <3>1. batch \in [Jobs -> {"none", "pending", "succeeded"}]
      BY <1>0 DEF Types
    <3> QED
      BY <2>1, <2>3, <3>1
  <2>5. BatchesOf(s)' = BatchesOf(s)
    BY <1>0, <2>1, <2>2, <2>3, <2>4, QuietStep
  <2>6. task[w] \in BatchesOf(s)
    BY <1>s, <1>1, <2>1, <2>3 DEF BatchesOf, JobsOf, Q!Exists, StepOf, BatchInv, NothingDeleted
  <2>7. Witnessed(w)'
    BY <1>s, <1>0, <2>1, <2>5, <2>6 DEF Witnessed, StepOf, Types
  <2> QED
    BY <1>0, <2>1, <2>2, <2>4, <2>7, WorkerMoves DEF Types
<1>7. CASE SucceedJob(w) \/ LoseStatement(w)
  <2>1. Shrinks /\ NothingDeleted'
    BY <1>0, <1>7, QueueStepsShrink, OnlyDeleteDeletes DEF SucceedJob, LoseStatement, BatchInv
  <2>2. UNCHANGED <<jobStep, batch, stepStatus, ready>> /\ pc[w] # "idle"
    BY <1>7, LossyAssumption DEF SucceedJob, LoseStatement, At, jobVars, tableVars, loopVars
  <2>3. \/ /\ pc' = [pc EXCEPT ![w] = "hasBatches"] /\ task' = task /\ pc[w] = "succeed"
        \/ /\ pc' = [pc EXCEPT ![w] = "succeed"] /\ task' = task /\ pc[w] = "batchDone"
        \/ /\ \E next \in {"exec", "failStep", "idle"} : pc' = [pc EXCEPT ![w] = next]
           /\ task' = task \/ task' = [task EXCEPT ![w] = NoJob]
    BY <1>7 DEF SucceedJob, LoseStatement, At, GoTo, Return
  <2>4. BatchesOf(s)' = BatchesOf(s)
    BY <1>0, <1>1, <2>1, <2>2, QuietStep
  <2>5. pc[w] = "batchDone" => task[w] \in BatchesOf(s)
    BY <1>s, <1>1, <1>w, <2>2
       DEF BatchesOf, JobsOf, Q!Exists, StepOf, BatchInv, NothingDeleted, Witnessed
  <2>6. Witnessed(w)'
    BY <1>s, <1>0, <1>w, <2>2, <2>3, <2>4, <2>5 DEF Witnessed, StepOf, Types
  <2> QED
    BY <1>0, <2>1, <2>2, <2>3, <2>6, WorkerMoves DEF Types
<1>8. CASE ExecCopyTable(w)
  <2>1. /\ UNCHANGED <<stepStatus, ready, task>> /\ pc[w] # "idle"
        /\ jobStep[task[w]] = s
    BY <1>s, <1>8 DEF ExecCopyTable, At, tableVars, loopVars, StepOf
  <2>2. s \in Steps /\ DataBefore(s)
    BY <1>1, <2>1 DEF BatchInv, JobsFollowData
  <2>3. CASE BatchesOf(s) # {}
    <3>1. UNCHANGED <<queueVars, jobStep, batch>> /\ pc' = [pc EXCEPT ![w] = "fail"]
      BY <1>s, <1>8, <2>3 DEF ExecCopyTable, GoTo, jobVars
    <3>2. Shrinks /\ NothingDeleted'
      BY <1>0, <3>1, QueueStepsShrink, OnlyDeleteDeletes DEF BatchInv
    <3>3. Witnessed(w)'
      BY <1>0, <3>1 DEF Witnessed, Types
    <3> QED
      BY <1>0, <2>1, <3>1, <3>2, <3>3, WorkerMoves DEF Types
  <2>4. CASE BatchesOf(s) = {}
    <3>1. /\ InsertJobs([i \in 1..NBatches[s] |-> s], "pending")
          /\ pc' = [pc EXCEPT ![w] = "succeed"]
      BY <1>s, <1>8, <2>4 DEF ExecCopyTable, GoTo
    <3>2. /\ BatchesStay /\ NothingDeleted' /\ BatchRowsHaveJobs' /\ AllOrNoBatches'
          /\ \A j \in Jobs : jobStatus[j] # "none" => jobStep'[j] = jobStep[j]
          /\ JobsFollowData'
          /\ NBatches[s] > 0 => BatchesOf(s)' # {}
      BY <2>2, <2>4, <3>1, CopyTableInserts
    <3>3. ReadyFollowsData'
      BY <1>0, <2>1, <3>2, CopiedStays DEF BatchInv, ReadyFollowsData, Types
    <3>4. SucceededIsCopied'
      BY <2>1, <3>2, CopiedStays DEF BatchInv, SucceededIsCopied
    <3>5. Witnessed(w)'
      <4>1. pc'[w] = "succeed" /\ StepOf(w)' = s
        BY <1>0, <1>1, <2>1, <3>1, <3>2 DEF StepOf, Types
      <4> QED
        BY <3>2, <4>1 DEF Witnessed
    <3>6. \A v \in Workers : Witnessed(v)'
      BY <1>0, <2>1, <3>1, <3>2, <3>5, WitnessedStays DEF BatchInv, Types
    <3> QED
      BY <3>2, <3>3, <3>4, <3>6 DEF BatchInv
  <2> QED
    BY <2>3, <2>4
<1> QED
  BY <1>2, <1>3, <1>4, <1>5, <1>6, <1>7, <1>8 DEF Handle

\* Nothing is inserted at the start.
LEMMA InitBatchInv == Init => BatchInv
BY QueueAssumption, StepAssumption
   DEF Init, Q!Init, BatchInv, NothingDeleted, BatchRowsHaveJobs, AllOrNoBatches, BatchesOf,
       JobsOf, Q!Exists, JobsFollowData, ReadyFollowsData, SucceededIsCopied, Witnessed

\* Without replays the program keeps both invariants.
LEMMA BatchInvariant == ASSUME NoReplay PROVE Spec => [](DispatchInv /\ BatchInv)
<1>1. DispatchInv /\ BatchInv /\ [Next]_vars => DispatchInv' /\ BatchInv'
  <2> SUFFICES ASSUME DispatchInv, BatchInv, [Next]_vars PROVE DispatchInv' /\ BatchInv'
    OBVIOUS
  <2>1. DispatchInv'
    BY NextDispatchInv
  <2> QED
    BY <2>1, ApiKeepsBatches, EnvironmentKeepsBatches, InsertersKeepBatches, WorkerKeepsBatches
       DEF Next
<1> QED
  BY <1>1, InitDispatchInv, InitBatchInv, PTL DEF Spec

\* A copy_table step never succeeds with a batch that is not copied, however
\* many crashes, expired locks, lost statements, cancellations and retries come
\* between the count of its unfinished batches and its update.
THEOREM BatchesComplete ==
    ASSUME NoReplay PROVE Spec => []NoBatchLeftBehind
<1>1. BatchInv => NoBatchLeftBehind
  BY DEF BatchInv, SucceededIsCopied, AllCopied, AllOrNoBatches, NoBatchLeftBehind
<1> QED
  BY <1>1, BatchInvariant, PTL

\* Whatever happens to the statuses of steps (a succeeded step may be failed
\* again), no handler works for a step before the tables it depends on are
\* completely copied.
DataBeforeDependents ==
    \A w \in Workers : pc[w] # "idle" =>
        \A d \in Deps[StepOf(w)] : NBatches[d] > 0 =>
            /\ Cardinality(BatchesOf(d)) = NBatches[d]
            /\ \A j \in BatchesOf(d) : batch[j] = "succeeded"

\* A foreign key, say, is never created on a table that is still being copied:
\* DependencyOrder as far as data is concerned, under every fault and every
\* API call but a replay.
THEOREM DependentsFollowData ==
    ASSUME NoReplay PROVE Spec => []DataBeforeDependents
<1>1. DispatchInv /\ BatchInv => DataBeforeDependents
  BY StepAssumption
     DEF BatchInv, JobsFollowData, DataBefore, AllCopied, AllOrNoBatches, DataBeforeDependents,
         DispatchInv, WorkersHaveJobs, JobsHaveRuns, StepOf
<1> QED
  BY <1>1, BatchInvariant, PTL

-----------------------------------------------------------------------------
(* A running step has work.                                                *)
(*                                                                         *)
(* As long as no statement of a worker is lost but the one that shows a    *)
(* step as running, every job that leaves the states in which it will be   *)
(* worked on is followed by a worker that rolls its step up.  Locks may    *)
(* expire under slow handlers, and users may play steps and levels, at any *)
(* moment.                                                                 *)

Reporting ==
    Operations \subseteq {"play"} /\ MaxCrashes = 0 /\ Lossy \subseteq {"start"}

\* A worker that has not reported its job yet.
Busy(w) == pc[w] \in {"start", "exec", "batchDone", "succeed", "fail"}

BusyHolds == \A w \in Workers : Busy(w) => held[w] = task[w]

RunningIsHeld ==
    \A j \in Jobs : jobStatus[j] = "running" => \E w \in Workers : Busy(w) /\ task[w] = j

\* A copy_batch job is reported only after its batch is recorded.
CopiedIsRecorded ==
    /\ \A j \in Jobs : jobStatus[j] = "succeeded" => batch[j] # "pending"
    /\ \A w \in Workers : pc[w] = "succeed" => batch[task[w]] # "pending"

AboutToFail(s) == \E w \in Workers : pc[w] = "failStep" /\ StepOf(w) = s

\* The step of a dead job has ended, or a worker is on its way to end it.
DeadIsReported ==
    \A j \in Jobs : jobStatus[j] = "dead" =>
        \/ stepStatus[jobStep[j]] \in {"succeeded", "failed"}
        \/ \E w \in Workers : Busy(w) /\ task[w] = j
        \/ AboutToFail(jobStep[j])

\* What keeps a running step from being forgotten: a job still to be claimed,
\* a worker that will roll it up, or one that will fail it.
Attended(s) ==
    \/ \E j \in Jobs : jobStatus[j] = "pending" /\ jobStep[j] = s
    \/ \E w \in Workers : pc[w] \notin {"idle", "failStep"} /\ StepOf(w) = s
    \/ (\E j \in Jobs : jobStatus[j] = "dead" /\ jobStep[j] = s) /\ AboutToFail(s)

RunningIsAttended == \A s \in Steps : stepStatus[s] = "running" => Attended(s)

WorkInv ==
    /\ crashes = 0 /\ calls = {}
    /\ BusyHolds /\ RunningIsHeld /\ CopiedIsRecorded /\ DeadIsReported /\ RunningIsAttended

\* What a transaction that inserts jobs does to each row.
LEMMA InsertsPending ==
    ASSUME Types, NEW A, NEW owner \in [A -> Steps],
           NEW new_ \in {"none", "pending"}, InsertJobs(owner, new_)
    PROVE  /\ held' = held
           /\ \A j \in Jobs :
                \/ /\ jobStatus[j] = "none" /\ jobStatus'[j] = "pending" /\ batch'[j] = new_
                   /\ \E a \in A : jobStep'[j] = owner[a]
                \/ /\ jobStatus'[j] = jobStatus[j]
                   /\ jobStep'[j] = jobStep[j] /\ batch'[j] = batch[j]
<1>1. PICK id \in [A -> FreeIds] :
                /\ \A a, b \in A : id[a] = id[b] => a = b
                /\ \A a \in A : /\ jobStatus'[id[a]] = "pending"
                                /\ jobStep'[id[a]] = owner[a]
                                /\ batch'[id[a]] = new_
                /\ \A j \in Jobs : j \notin {id[a] : a \in A} =>
                      /\ jobStatus'[j] = jobStatus[j]
                      /\ jobStep'[j] = jobStep[j]
                      /\ batch'[j] = batch[j]
  BY InsertEffect
<1>2. held' = held
  BY InsertEffect
<1> QED
  BY <1>1, <1>2 DEF FreeIds

\* New jobs are pending, and nobody works on them yet.
LEMMA InsertKeepsWork ==
    ASSUME DispatchInv, WorkInv, NEW A, NEW owner \in [A -> Steps],
           NEW new_ \in {"none", "pending"}, InsertJobs(owner, new_),
           UNCHANGED <<crashes, calls, task>>,
           \A w \in Workers : \/ pc'[w] = pc[w]
                              \/ pc[w] = "exec" /\ pc'[w] = "succeed" /\ batch[task[w]] = "none",
           \A s \in Steps : \/ stepStatus'[s] = stepStatus[s]
                            \/ runStatus[RunOf[s]] = "none" /\ stepStatus'[s] = "pending"
    PROVE  WorkInv'
<1> USE DEF WorkInv, DispatchInv
<1>1. /\ held' = held
      /\ \A j \in Jobs :
           \/ jobStatus[j] = "none" /\ jobStatus'[j] = "pending"
           \/ jobStatus'[j] = jobStatus[j] /\ jobStep'[j] = jobStep[j] /\ batch'[j] = batch[j]
  BY InsertsPending
<1>2. \A w \in Workers : pc[w] # "idle" =>
          task[w] \in Jobs /\ StepOf(w)' = StepOf(w) /\ batch'[task[w]] = batch[task[w]]
  BY <1>1 DEF WorkersHaveJobs, StepOf
<1>3. BusyHolds' /\ RunningIsHeld'
  BY <1>1 DEF BusyHolds, RunningIsHeld, Busy
<1>4. CopiedIsRecorded'
  BY <1>1, <1>2 DEF CopiedIsRecorded
<1>5. \A s \in Steps : AboutToFail(s) => AboutToFail(s)'
  BY <1>2 DEF AboutToFail
<1>6. DeadIsReported'
  BY <1>1, <1>5 DEF DeadIsReported, Busy, JobsHaveRuns
<1>7. \A s \in Steps : Attended(s) => Attended(s)'
  BY <1>1, <1>2, <1>5 DEF Attended
<1>8. RunningIsAttended'
  BY <1>7 DEF RunningIsAttended
<1> QED
  BY <1>3, <1>4, <1>6, <1>8

\* A worker that goes on with its job, and is still the one to roll it up.
LEMMA MoveKeepsWork ==
    ASSUME DispatchInv, WorkInv, NEW w \in Workers, NEW next \in Statements,
           pc' = [pc EXCEPT ![w] = next],
           pc[w] \notin {"idle", "failStep"}, next \notin {"idle", "failStep"},
           Busy(w) <=> next \in {"start", "exec", "batchDone", "succeed", "fail"},
           next = "succeed" => batch'[task[w]] # "pending",
           \A j \in Jobs : batch'[j] = "pending" => batch[j] = "pending",
           \A s \in Steps : \/ stepStatus'[s] = stepStatus[s]
                            \/ s = StepOf(w) /\ stepStatus[s] = "pending",
           UNCHANGED <<queueVars, jobStep, task, crashes, calls>>
    PROVE  WorkInv'
<1> USE DEF WorkInv, DispatchInv, Types, queueVars
<1>1. \A v \in Workers : StepOf(v)' = StepOf(v)
  BY DEF StepOf
<1>2. BusyHolds' /\ RunningIsHeld'
  BY DEF BusyHolds, RunningIsHeld, Busy
<1>3. CopiedIsRecorded'
  BY DEF CopiedIsRecorded, WorkersHaveJobs
<1>4. \A s \in Steps : AboutToFail(s) => AboutToFail(s)'
  BY <1>1 DEF AboutToFail
<1>5. DeadIsReported'
  BY <1>4 DEF DeadIsReported, Busy, JobsHaveRuns
<1>6. \A s \in Steps : Attended(s) => Attended(s)'
  BY <1>1, <1>4 DEF Attended
<1>7. Attended(StepOf(w))'
  BY <1>1 DEF Attended
<1>8. RunningIsAttended'
  BY <1>1, <1>6, <1>7 DEF RunningIsAttended
<1> QED
  BY <1>2, <1>3, <1>5, <1>8

\* A worker that returns, with the step ended or attended to by others.
LEMMA ReturnKeepsWork ==
    ASSUME DispatchInv, WorkInv, NEW w \in Workers, NEW s \in Steps, s = StepOf(w),
           pc[w] # "idle", ~Busy(w), Return(w),
           \A t \in Steps \ {s} : stepStatus'[t] = stepStatus[t],
           \/ stepStatus'[s] \in {"succeeded", "failed"}
           \/ /\ stepStatus'[s] = stepStatus[s]
              /\ stepStatus[s] = "running" => Attended(s)'
              /\ pc[w] = "failStep" => \A j \in Jobs : ~(jobStatus[j] = "dead" /\ jobStep[j] = s),
           UNCHANGED <<queueVars, jobStep, batch, crashes, calls>>
    PROVE  WorkInv'
<1> USE DEF WorkInv, DispatchInv, Types, queueVars, Return, GoTo
<1>1. \A v \in Workers \ {w} : StepOf(v)' = StepOf(v) /\ pc'[v] = pc[v] /\ task'[v] = task[v]
  BY DEF StepOf
<1>2. pc'[w] = "idle"
  OBVIOUS
<1>3. BusyHolds' /\ RunningIsHeld' /\ CopiedIsRecorded'
  BY <1>1, <1>2 DEF BusyHolds, RunningIsHeld, CopiedIsRecorded, Busy
<1>4. \A t \in Steps : AboutToFail(t) => AboutToFail(t)' \/ (t = s /\ pc[w] = "failStep")
  BY <1>1 DEF AboutToFail
<1>5. DeadIsReported'
  <2> SUFFICES ASSUME NEW j \in Jobs, jobStatus'[j] = "dead"
               PROVE  \/ stepStatus'[jobStep'[j]] \in {"succeeded", "failed"}
                      \/ \E v \in Workers : Busy(v)' /\ task'[v] = j
                      \/ AboutToFail(jobStep[j])'
    BY DEF DeadIsReported
  <2>1. jobStatus[j] = "dead" /\ jobStep'[j] = jobStep[j] /\ jobStep[j] \in Steps
    BY DEF JobsHaveRuns
  <2>2. CASE \E v \in Workers : Busy(v) /\ task[v] = j
    BY <1>1, <2>2 DEF Busy
  <2>3. CASE AboutToFail(jobStep[j])
    BY <1>4, <2>1, <2>3
  <2>4. CASE stepStatus[jobStep[j]] \in {"succeeded", "failed"}
    BY <2>1, <2>4
  <2> QED
    BY <2>1, <2>2, <2>3, <2>4 DEF DeadIsReported
<1>6. \A t \in Steps \ {s} : Attended(t) => Attended(t)'
  <2> SUFFICES ASSUME NEW t \in Steps \ {s}, Attended(t) PROVE Attended(t)'
    OBVIOUS
  <2>1. AboutToFail(t) => AboutToFail(t)'
    BY <1>4
  <2> QED
    BY <1>1, <2>1 DEF Attended
<1>7. RunningIsAttended'
  BY <1>6 DEF RunningIsAttended
<1> QED
  BY <1>3, <1>5, <1>7

\* The worker that claims a job attends to its step.
LEMMA ClaimKeepsWork ==
    ASSUME DispatchInv, WorkInv, NEW w \in Workers, NEW j \in Jobs, ClaimJob(w, j)
    PROVE  WorkInv'
<1> USE DEF WorkInv, DispatchInv, Types
<1>1. /\ pc[w] = "idle" /\ jobStatus[j] = "pending"
      /\ jobStatus' = [jobStatus EXCEPT ![j] = "running"]
      /\ held' = [held EXCEPT ![w] = j]
      /\ pc' = [pc EXCEPT ![w] = "start"] /\ task' = [task EXCEPT ![w] = j]
      /\ UNCHANGED <<jobStep, batch, stepStatus, crashes, calls>>
  BY DEF ClaimJob, Q!Claim, At, GoTo, jobVars, tableVars, envVars
<1>2. \A v \in Workers \ {w} : StepOf(v)' = StepOf(v) /\ pc'[v] = pc[v] /\ task'[v] = task[v]
  BY <1>1 DEF StepOf
<1>3. pc'[w] = "start" /\ task'[w] = j /\ StepOf(w)' = jobStep[j]
  BY <1>1 DEF StepOf
<1>4. BusyHolds' /\ RunningIsHeld' /\ CopiedIsRecorded'
  BY <1>1, <1>2, <1>3 DEF BusyHolds, RunningIsHeld, CopiedIsRecorded, Busy
<1>5. \A s \in Steps : AboutToFail(s) => AboutToFail(s)'
  BY <1>1, <1>2 DEF AboutToFail
<1>6. DeadIsReported'
  BY <1>1, <1>2, <1>5 DEF DeadIsReported, Busy, JobsHaveRuns
<1>7. \A s \in Steps : Attended(s) => Attended(s)'
  BY <1>1, <1>2, <1>3, <1>5 DEF Attended
<1>8. RunningIsAttended'
  BY <1>1, <1>7 DEF RunningIsAttended
<1> QED
  BY <1>1, <1>4, <1>6, <1>8

\* A report, by id alone, whatever the row has become: the worker that makes
\* it goes on to roll the step up, or to fail it if the job is dead.
LEMMA ReportKeepsWork ==
    ASSUME DispatchInv, BatchInv, WorkInv, NEW w \in Workers, SucceedJob(w) \/ FailJob(w)
    PROVE  WorkInv'
<1> USE DEF WorkInv, DispatchInv, Types
<1>0. PICK j : j = task[w]
  OBVIOUS
<1>1. Busy(w) /\ j \in Jobs /\ held[w] = j /\ jobStatus[j] \notin {"none", "deleted"}
  BY <1>0 DEF SucceedJob, FailJob, At, Busy, BusyHolds, WorkersHaveJobs, BatchInv, NothingDeleted
<1>2. \E next \in {"succeeded", "pending", "dead"} :
        /\ jobStatus' = [jobStatus EXCEPT ![j] = next]
        /\ next = "succeeded" => pc[w] = "succeed" /\ pc' = [pc EXCEPT ![w] = "hasBatches"]
        /\ next # "succeeded" => pc' = [pc EXCEPT ![w] = "failStep"]
  <2>1. CASE SucceedJob(w)
    BY <1>1, <2>1 DEF SucceedJob, Q!Succeed, Q!Exists, At, GoTo
  <2>2. CASE FailJob(w)
    BY <1>1, <2>2 DEF FailJob, Q!Fail, Q!Exists, Q!AfterFailure, GoTo
  <2> QED
    BY <2>1, <2>2
<1>3. UNCHANGED <<jobStep, batch, stepStatus, crashes, calls, task>>
      /\ \A v \in Workers \ {w} : held'[v] = held[v]
  BY DEF SucceedJob, FailJob, Q!Succeed, Q!Fail, jobVars, tableVars, envVars
<1>4. \A v \in Workers : StepOf(v)' = StepOf(v)
  BY <1>3 DEF StepOf
<1>5. StepOf(w) = jobStep[j] /\ jobStep[j] \in Steps
  BY <1>0, <1>1 DEF StepOf, JobsHaveRuns
<1>6. BusyHolds'
  BY <1>1, <1>2, <1>3 DEF BusyHolds, Busy
<1>a. /\ jobStatus'[j] # "running"
      /\ \A k \in Jobs \ {j} : jobStatus'[k] = jobStatus[k]
      /\ \A v \in Workers \ {w} : pc'[v] = pc[v]
  BY <1>1, <1>2
<1>7. RunningIsHeld'
  BY <1>0, <1>3, <1>a DEF RunningIsHeld, Busy
<1>8. CopiedIsRecorded'
  BY <1>0, <1>2, <1>3 DEF CopiedIsRecorded
<1>9. \A s \in Steps : AboutToFail(s) => AboutToFail(s)'
  BY <1>1, <1>2, <1>4 DEF AboutToFail, Busy
<1>10. jobStatus'[j] = "dead" => AboutToFail(jobStep[j])'
  BY <1>1, <1>2, <1>3, <1>4, <1>5 DEF AboutToFail
<1>11. DeadIsReported'
  <2> SUFFICES ASSUME NEW k \in Jobs, jobStatus'[k] = "dead", k # j
               PROVE  \/ stepStatus'[jobStep'[k]] \in {"succeeded", "failed"}
                      \/ \E v \in Workers : Busy(v)' /\ task'[v] = k
                      \/ AboutToFail(jobStep[k])'
    BY <1>3, <1>10 DEF DeadIsReported
  <2>1. jobStatus[k] = "dead" /\ jobStep[k] \in Steps
    BY <1>a DEF JobsHaveRuns
  <2>2. CASE \E v \in Workers : Busy(v) /\ task[v] = k
    BY <1>0, <1>3, <1>a, <2>2 DEF Busy
  <2>3. CASE AboutToFail(jobStep[k])
    BY <1>3, <1>9, <2>1, <2>3
  <2> QED
    BY <1>3, <2>1, <2>2, <2>3 DEF DeadIsReported
<1>12. Attended(jobStep[j])'
  BY <1>1, <1>2, <1>3, <1>4, <1>5, <1>10 DEF Attended
<1>13. \A s \in Steps \ {jobStep[j]} : Attended(s) => Attended(s)'
  <2> SUFFICES ASSUME NEW s \in Steps \ {jobStep[j]}, Attended(s) PROVE Attended(s)'
    OBVIOUS
  <2>1. AboutToFail(s) => AboutToFail(s)'
    BY <1>9
  <2>2. \A k \in Jobs : jobStep[k] = s => jobStatus'[k] = jobStatus[k]
    BY <1>2
  <2>3. \A v \in Workers : StepOf(v) = s => pc'[v] = pc[v]
    BY <1>2, <1>5
  <2> QED
    BY <1>3, <1>4, <2>1, <2>2, <2>3 DEF Attended
<1>14. RunningIsAttended'
  BY <1>3, <1>5, <1>12, <1>13 DEF RunningIsAttended
<1> QED
  BY <1>3, <1>6, <1>7, <1>8, <1>11, <1>14

\* Statements on rows by others than their workers: the supervisor's and those
\* of play.  They make a running row pending, or dead; a dead one pending.
LEMMA RowsKeepWork ==
    ASSUME DispatchInv, WorkInv,
           UNCHANGED <<jobStep, batch, pc, task, held, crashes, calls>>,
           \A j \in Jobs :
              \/ jobStatus'[j] = jobStatus[j]
              \/ jobStatus[j] = "running" /\ jobStatus'[j] = "dead"
              \/ jobStatus[j] \in {"dead", "running"} /\ jobStatus'[j] = "pending",
           \A s \in Steps :
              \/ stepStatus'[s] = stepStatus[s]
              \/ stepStatus'[s] = "failed"
              \/ /\ stepStatus'[s] = "pending"
                 /\ \A j \in Jobs : jobStep[j] = s => jobStatus'[j] # "dead"
    PROVE  WorkInv'
<1> USE DEF WorkInv, DispatchInv, Types
<1>1. \A v \in Workers : StepOf(v)' = StepOf(v)
  BY DEF StepOf
<1>2. BusyHolds' /\ RunningIsHeld' /\ CopiedIsRecorded'
  BY DEF BusyHolds, RunningIsHeld, CopiedIsRecorded, Busy
<1>3. \A s \in Steps : AboutToFail(s) => AboutToFail(s)'
  BY <1>1 DEF AboutToFail
<1>4. DeadIsReported'
  <2> SUFFICES ASSUME NEW j \in Jobs, jobStatus'[j] = "dead"
               PROVE  \/ stepStatus'[jobStep'[j]] \in {"succeeded", "failed"}
                      \/ \E v \in Workers : Busy(v)' /\ task'[v] = j
                      \/ AboutToFail(jobStep[j])'
    BY DEF DeadIsReported
  <2>1. jobStatus[j] \in {"running", "dead"} /\ jobStep[j] \in Steps
    BY DEF JobsHaveRuns
  <2>2. CASE \E v \in Workers : Busy(v) /\ task[v] = j
    BY <2>2 DEF Busy
  <2>3. CASE AboutToFail(jobStep[j])
    BY <1>3, <2>1, <2>3
  <2>4. CASE stepStatus[jobStep[j]] \in {"succeeded", "failed"}
    BY <2>1, <2>4
  <2> QED
    BY <2>1, <2>2, <2>3, <2>4 DEF DeadIsReported, RunningIsHeld
<1>5. \A s \in Steps : Attended(s) => Attended(s)'
  <2> SUFFICES ASSUME NEW s \in Steps, Attended(s) PROVE Attended(s)'
    OBVIOUS
  <2>1. CASE \E j \in Jobs : jobStatus[j] = "pending" /\ jobStep[j] = s
    BY <2>1 DEF Attended
  <2>2. CASE \E w \in Workers : pc[w] \notin {"idle", "failStep"} /\ StepOf(w) = s
    BY <1>1, <2>2 DEF Attended
  <2>3. CASE (\E j \in Jobs : jobStatus[j] = "dead" /\ jobStep[j] = s) /\ AboutToFail(s)
    BY <1>3, <2>3 DEF Attended
  <2> QED
    BY <2>1, <2>2, <2>3 DEF Attended
<1>6. RunningIsAttended'
  BY <1>5 DEF RunningIsAttended
<1> QED
  BY <1>2, <1>4, <1>6

\* A worker that sees unfinished jobs, or no dead one, leaves the step to
\* others; one that ends the step needs nobody else.
LEMMA RollUpKeepsWork ==
    ASSUME DispatchInv, BatchInv, WorkInv, NEW w \in Workers,
           CountUnfinished(w) \/ FinishStep(w) \/ FailStep(w)
    PROVE  WorkInv'
<1> USE DEF DispatchInv, WorkInv
<1>0. PICK s : s = StepOf(w)
  OBVIOUS
<1>1. /\ pc[w] \in {"count", "finish", "failStep"} /\ ~Busy(w)
      /\ s \in Steps
      /\ UNCHANGED <<queueVars, jobStep, batch, crashes, calls>>
  BY <1>0
     DEF CountUnfinished, FinishStep, FailStep, At, Busy, WorkersHaveJobs, JobsHaveRuns, StepOf,
         jobVars, envVars
<1>2. CASE FinishStep(w)
  BY <1>0, <1>1, <1>2, ReturnKeepsWork DEF FinishStep, Types
<1>3. ASSUME Return(w), \E v \in Workers \ {w} : pc[v] \notin {"idle", "failStep"} /\ StepOf(v) = s
      PROVE  Attended(s)'
  BY <1>1, <1>3 DEF Attended, Return, GoTo, Types, StepOf
<1>4. ASSUME NEW j \in Jobs, jobStatus[j] = "pending", jobStep[j] = s PROVE Attended(s)'
  BY <1>1, <1>4 DEF Attended, queueVars
<1>5. CASE CountUnfinished(w) /\ Unfinished(s) = {}
  <2>1. /\ pc' = [pc EXCEPT ![w] = "finish"] /\ pc[w] = "count"
        /\ UNCHANGED <<stepStatus, task>>
    BY <1>0, <1>5 DEF CountUnfinished, At, GoTo, tableVars
  <2> QED
    BY <1>1, <2>1, MoveKeepsWork DEF Statements
<1>6. CASE CountUnfinished(w) /\ Unfinished(s) # {}
  <2>1. Return(w) /\ pc[w] = "count" /\ UNCHANGED stepStatus
    BY <1>0, <1>6 DEF CountUnfinished, At, tableVars
  <2>2. PICK j \in Jobs : /\ jobStep[j] = s /\ jobStatus[j] \notin {"none", "deleted"}
                          /\ jobStatus[j] \in {"pending", "running"} \/ batch[j] = "pending"
    BY <1>6 DEF Unfinished, BatchesOf, JobsOf, HasStatus, Q!Exists, Types
  <2>3. jobStatus[j] \in {"pending", "running", "dead"}
    BY <2>2 DEF CopiedIsRecorded, Types, Q!Statuses
  <2>4. ASSUME stepStatus[s] = "running" PROVE Attended(s)'
    <3>1. CASE \E v \in Workers : Busy(v) /\ task[v] = j
      <4>1. PICK v \in Workers : Busy(v) /\ task[v] = j
        BY <3>1
      <4> QED
        BY <1>1, <1>3, <2>1, <2>2, <4>1 DEF Busy, StepOf
    <3>2. CASE jobStatus[j] = "dead" /\ AboutToFail(s)
      <4>1. PICK v \in Workers : pc[v] = "failStep" /\ StepOf(v) = s
        BY <3>2 DEF AboutToFail
      <4>2. pc'[v] = "failStep" /\ StepOf(v)' = s
        BY <1>1, <2>1, <4>1 DEF Return, GoTo, Types, StepOf
      <4>3. jobStatus'[j] = "dead" /\ jobStep'[j] = s
        BY <1>1, <2>2, <3>2 DEF queueVars
      <4> QED
        BY <4>2, <4>3 DEF Attended, AboutToFail
    <3> QED
      BY <1>4, <2>2, <2>3, <2>4, <3>1, <3>2 DEF RunningIsHeld, DeadIsReported
  <2> QED
    BY <1>0, <1>1, <2>1, <2>4, ReturnKeepsWork
<1>7. CASE FailStep(w)
  <2>1. /\ Return(w) /\ pc[w] = "failStep"
        /\ stepStatus' = [stepStatus EXCEPT ![s] =
              IF HasStatus(JobsOf({s}), {"dead"}) # {} THEN "failed" ELSE @]
    BY <1>0, <1>7 DEF FailStep, At
  <2>2. CASE HasStatus(JobsOf({s}), {"dead"}) # {}
    BY <1>0, <1>1, <2>1, <2>2, ReturnKeepsWork DEF Types
  <2>3. CASE HasStatus(JobsOf({s}), {"dead"}) = {}
    <3>1. \A j \in Jobs : ~(jobStatus[j] = "dead" /\ jobStep[j] = s)
      BY <2>3 DEF HasStatus, JobsOf, Q!Exists
    <3>2. ASSUME stepStatus[s] = "running" PROVE Attended(s)'
      <4>1. Attended(s)
        BY <1>1, <3>2 DEF RunningIsAttended
      <4> QED
        BY <1>3, <1>4, <2>1, <3>1, <4>1 DEF Attended
    <3>3. stepStatus' = stepStatus
      BY <1>1, <2>1, <2>3 DEF Types
    <3> QED
      BY <1>0, <1>1, <2>1, <3>1, <3>2, <3>3, ReturnKeepsWork
  <2> QED
    BY <2>2, <2>3
<1> QED
  BY <1>2, <1>5, <1>6, <1>7

\* The other statements of a worker.
LEMMA HandleKeepsWork ==
    ASSUME Reporting, DispatchInv, BatchInv, WorkInv, NEW w \in Workers, Handle(w)
    PROVE  WorkInv'
<1> USE DEF DispatchInv
<1>0. PICK s : s = StepOf(w)
  OBVIOUS
<1>1. pc[w] # "idle" => task[w] \in Jobs /\ s \in Steps
  BY <1>0 DEF WorkersHaveJobs, JobsHaveRuns, StepOf
<1>2. CASE StartStep(w) \/ LoseStatement(w)
  <2>1. /\ pc[w] = "start" /\ pc' = [pc EXCEPT ![w] = "exec"]
        /\ UNCHANGED <<queueVars, jobStep, batch, task, crashes, calls>>
    BY <1>2
       DEF StartStep, LoseStatement, Reporting, At, GoTo, jobVars, envVars
  <2>2. \A t \in Steps : stepStatus'[t] = stepStatus[t] \/ (t = s /\ stepStatus[t] = "pending")
    BY <1>0, <1>1, <1>2, <2>1 DEF StartStep, LoseStatement, tableVars, Types
  <2> QED
    BY <1>0, <2>1, <2>2, MoveKeepsWork DEF Busy, Statements
<1>3. CASE ExecHandler(w) \/ ExecError(w) \/ (ExecCopyTable(w) /\ BatchesOf(s) # {})
  <2>1. /\ pc[w] = "exec"
        /\ \E next \in {"succeed", "batchDone", "fail"} :
              /\ pc' = [pc EXCEPT ![w] = next]
              /\ next = "succeed" => batch[task[w]] = "none"
        /\ UNCHANGED <<queueVars, jobStep, batch, stepStatus, task, crashes, calls>>
    BY <1>0, <1>3
       DEF ExecHandler, ExecError, ExecCopyTable, At, GoTo, jobVars, tableVars, envVars
  <2> QED
    BY <2>1, MoveKeepsWork DEF Busy, Statements
<1>4. CASE ExecCopyTable(w) /\ BatchesOf(s) = {}
  <2>1. /\ pc[w] = "exec" /\ batch[task[w]] = "none"
        /\ InsertJobs([i \in 1..NBatches[s] |-> s], "pending")
        /\ pc' = [pc EXCEPT ![w] = "succeed"]
        /\ UNCHANGED <<stepStatus, task, crashes, calls>>
    BY <1>0, <1>4 DEF ExecCopyTable, IsCopyTable, At, GoTo, tableVars, envVars
  <2>2. [i \in 1..NBatches[s] |-> s] \in [1..NBatches[s] -> Steps]
    BY <1>1, <2>1
  <2>3. \A v \in Workers : \/ pc'[v] = pc[v]
                           \/ pc[v] = "exec" /\ pc'[v] = "succeed" /\ batch[task[v]] = "none"
    BY <2>1 DEF Types
  <2> QED
    BY <2>1, <2>2, <2>3, InsertKeepsWork
<1>5. CASE BatchDone(w)
  <2>1. /\ pc[w] = "batchDone" /\ batch' = [batch EXCEPT ![task[w]] = "succeeded"]
        /\ pc' = [pc EXCEPT ![w] = "succeed"]
        /\ UNCHANGED <<queueVars, jobStep, stepStatus, task, crashes, calls>>
    BY <1>5 DEF BatchDone, At, GoTo, tableVars, envVars
  <2>2. /\ batch'[task[w]] # "pending"
        /\ \A j \in Jobs : batch'[j] = "pending" => batch[j] = "pending"
    BY <1>1, <2>1 DEF Types
  <2> QED
    BY <2>1, <2>2, MoveKeepsWork DEF Busy, Statements
<1>6. CASE HasBatches(w)
  <2>1. /\ pc[w] = "hasBatches"
        /\ \E next \in {"finish", "count"} : pc' = [pc EXCEPT ![w] = next]
        /\ UNCHANGED <<queueVars, jobStep, batch, stepStatus, task, crashes, calls>>
    BY <1>6 DEF HasBatches, At, GoTo, jobVars, tableVars, envVars
  <2> QED
    BY <2>1, MoveKeepsWork DEF Busy, Statements
<1> QED
  BY <1>2, <1>3, <1>4, <1>5, <1>6, ReportKeepsWork, RollUpKeepsWork DEF Handle

\* The supervisor, and play.
LEMMA ResetKeepsWork ==
    ASSUME DispatchInv, WorkInv,
           \/ RequeueOrphans \/ FailOrphanedSteps
           \/ \E r, P : PlaySteps(r, P)
    PROVE  WorkInv'
<1> USE DEF DispatchInv, Types
<1>1. CASE RequeueOrphans
  <2>1. \A j \in Jobs : \/ jobStatus'[j] = jobStatus[j]
                        \/ jobStatus[j] = "running" /\ jobStatus'[j] \in {"dead", "pending"}
    BY <1>1 DEF RequeueOrphans, Q!RequeueOrphans, Q!Orphans, Q!AfterFailure
  <2>2. UNCHANGED <<jobStep, batch, stepStatus, pc, task, held, crashes, calls>>
    BY <1>1 DEF RequeueOrphans, Q!RequeueOrphans, jobVars, tableVars, workerVars, envVars
  <2> QED
    BY <2>1, <2>2, RowsKeepWork
<1>2. CASE FailOrphanedSteps
  <2>1. /\ UNCHANGED <<jobStatus, jobStep, batch, pc, task, held, crashes, calls>>
        /\ \A s \in Steps : stepStatus'[s] = stepStatus[s] \/ stepStatus'[s] = "failed"
    BY <1>2 DEF FailOrphanedSteps, queueVars, jobVars, workerVars, envVars
  <2> QED
    BY <2>1, RowsKeepWork
<1>3. ASSUME NEW r, NEW P, PlaySteps(r, P) PROVE WorkInv'
  <2>1. UNCHANGED <<jobStep, batch, pc, task, held, crashes, calls>>
    BY <1>3 DEF PlaySteps, Q!Reset, jobVars, workerVars
  <2>2. \A j \in Jobs :
           jobStatus'[j] = IF j \in HasStatus(JobsOf(P), {"pending", "dead", "running"})
                             THEN "pending" ELSE jobStatus[j]
    BY <1>3 DEF PlaySteps, Q!Reset
  <2>3. \A j \in Jobs :
              \/ jobStatus'[j] = jobStatus[j]
              \/ jobStatus[j] \in {"dead", "running"} /\ jobStatus'[j] = "pending"
    BY <2>2 DEF HasStatus
  <2>4. \A j \in Jobs : jobStep[j] \in P => jobStatus'[j] # "dead"
    BY <2>2 DEF HasStatus, JobsOf, Q!Exists
  <2>5. \A s \in Steps : stepStatus'[s] = stepStatus[s] \/ (s \in P /\ stepStatus'[s] = "pending")
    BY <1>3 DEF PlaySteps
  <2> QED
    BY <2>1, <2>3, <2>4, <2>5, RowsKeepWork
<1> QED
  BY <1>1, <1>2, <1>3

\* As long as statements are executed and nothing crashes, the invariant holds.
LEMMA WorkInvariant ==
    ASSUME Reporting PROVE Spec => [](DispatchInv /\ BatchInv /\ WorkInv)
<1>1. Init => WorkInv
  BY QueueAssumption
     DEF Init, Q!Init, WorkInv, BusyHolds, RunningIsHeld, CopiedIsRecorded, DeadIsReported,
         RunningIsAttended, Busy
<1>2. DispatchInv /\ BatchInv /\ WorkInv /\ [Next]_vars => WorkInv'
  <2> SUFFICES ASSUME DispatchInv, BatchInv, WorkInv, [Next]_vars PROVE WorkInv'
    OBVIOUS
  <2>1. ASSUME NEW r \in Runs, NEW mode \in Modes, StartRun(r, mode) PROVE WorkInv'
    <3> DEFINE S == {s \in StepsOf(r) : mode = "auto" /\ Deps[s] = {}}
    <3>1. [s \in S |-> s] \in [S -> Steps] /\ InsertJobs([s \in S |-> s], "none")
      BY <2>1 DEF StartRun, InsertStepJobs, StepsOf
    <3>2. UNCHANGED <<crashes, calls, task, pc>>
      BY <2>1 DEF StartRun, envVars, workerVars
    <3>3. \A s \in Steps : \/ stepStatus'[s] = stepStatus[s]
                           \/ runStatus[RunOf[s]] = "none" /\ stepStatus'[s] = "pending"
      BY <2>1 DEF StartRun
    <3> QED
      BY <3>1, <3>2, <3>3, InsertKeepsWork
  <2>2. CASE Api
    <3>1. \E r, P : PlaySteps(r, P)
      BY <2>2
         DEF Reporting, WorkInv, Api, CancelRun, RetryJobs, PlayStep, PlayLevel, ReplayStep,
             ReplayLevel, ReplaySteps, Called
    <3> QED
      BY <3>1, ResetKeepsWork
  <2>3. ASSUME NEW w \in Workers, Handle(w) \/ \E j \in Jobs : ClaimJob(w, j) PROVE WorkInv'
    BY <2>3, ClaimKeepsWork, HandleKeepsWork
  <2>4. CASE RequeueOrphans \/ FailOrphanedSteps
    BY <2>4, ResetKeepsWork
  <2>5. ASSUME NEW s \in Steps, DispatchEnqueue(s) PROVE WorkInv'
    <3>1. /\ InsertJobs([t \in {s} |-> t], "none")
          /\ UNCHANGED <<crashes, calls, task, pc, stepStatus>>
      BY <2>5 DEF DispatchEnqueue, InsertStepJobs, tableVars, workerVars, envVars
    <3>2. [t \in {s} |-> t] \in [{s} -> Steps]
      OBVIOUS
    <3> QED
      BY <3>1, <3>2, InsertKeepsWork
  <2>6. CASE DispatchSelect \/ Watch \/ UNCHANGED vars
             \/ \E j \in Jobs : BackoffElapses(j) \/ LockExpires(j)
    <3>1. UNCHANGED <<jobStatus, held, jobStep, batch, stepStatus, pc, task, crashes, calls>>
      BY <2>6
         DEF DispatchSelect, Watch, WatchSelect, WatchCount, WatchWrite, BackoffElapses,
             LockExpires, Q!BackoffElapses, Q!LockExpires, vars, queueVars, jobVars, tableVars,
             workerVars, envVars
    <3> QED
      BY <3>1, RowsKeepWork
  <2>7. ~Crash
    BY DEF Crash, WorkInv, Reporting
  <2> QED
    BY <2>1, <2>2, <2>3, <2>4, <2>5, <2>6, <2>7 DEF Next, Dispatch
<1>3. NoReplay
  BY DEF Reporting, NoReplay
<1> QED
  BY <1>1, <1>2, <1>3, BatchInvariant, PTL DEF Spec

\* No step shows as running for ever: when a worker leaves it, another job of it
\* is still to come, another worker is on it, or it has ended.  For every plan,
\* with failing and slow handlers and any use of play.
THEOREM RunningStepsAttended ==
    ASSUME Reporting PROVE Spec => []RunningStepHasWork
<1>1. DispatchInv /\ WorkInv => RunningStepHasWork
  <2> SUFFICES ASSUME DispatchInv, WorkInv, NEW s \in Steps, stepStatus[s] = "running"
               PROVE  \/ HasStatus(JobsOf({s}), {"pending", "running"}) # {}
                      \/ \E w \in Workers : task[w] # NoJob /\ StepOf(w) = s
    BY DEF RunningStepHasWork
  <2>1. Attended(s)
    BY DEF WorkInv, RunningIsAttended
  <2>2. \A w \in Workers : pc[w] # "idle" => task[w] # NoJob
    BY QueueAssumption DEF DispatchInv, WorkersHaveJobs
  <2>3. CASE \E j \in Jobs : jobStatus[j] = "pending" /\ jobStep[j] = s
    BY <2>3 DEF HasStatus, JobsOf, Q!Exists
  <2> QED
    BY <2>1, <2>2, <2>3 DEF Attended, AboutToFail
<1> QED
  BY <1>1, WorkInvariant, PTL

-----------------------------------------------------------------------------
(* Dependencies and the end of runs.                                       *)
(*                                                                         *)
(* With nobody calling the API, no crash, handlers faster than the orphan  *)
(* TTL and every report of a success executed, a step that has succeeded   *)
(* stays so: all of its jobs have, so that no FailStep of a slower worker  *)
(* finds a dead one.  Then what the dispatcher and the watcher read of     *)
(* steps still holds when they write.                                      *)

Undisturbed ==
    /\ Operations = {} /\ MaxCrashes = 0
    /\ MayOutlive = FALSE /\ "succeed" \notin Lossy

\* A worker that has not reported its job owns it, alone.
Owned ==
    /\ expired \in [Jobs -> BOOLEAN]
    /\ \A w \in Workers : Busy(w) =>
          held[w] = task[w] /\ jobStatus[task[w]] = "running" /\ ~expired[task[w]]
    /\ \A v, w \in Workers : Busy(v) /\ Busy(w) /\ task[v] = task[w] => v = w

\* The job succeeded, or its worker is about to say so.
Reported(j) ==
    jobStatus[j] = "succeeded" \/ \E w \in Workers : pc[w] = "succeed" /\ task[w] = j

Inserted(j) == jobStatus[j] # "none"

\* A worker that rolls a step up has reported its own job; a batch is recorded,
\* and batches are inserted, only by jobs that succeed.
ReportsAreTrue ==
    /\ \A w \in Workers :
          pc[w] \in {"hasBatches", "count", "finish"} => jobStatus[task[w]] = "succeeded"
    /\ \A j \in Jobs : batch[j] = "succeeded" => Reported(j)
    /\ \A j \in Jobs : batch[j] # "none" =>
          \E k \in Jobs : Inserted(k) /\ batch[k] = "none" /\ jobStep[k] = jobStep[j]
    /\ \A j, k \in Jobs :
          batch[j] # "none" /\ Inserted(k) /\ batch[k] = "none" /\ jobStep[k] = jobStep[j] =>
              Reported(k)

OwnInv == crashes = 0 /\ calls = {} /\ Owned /\ ReportsAreTrue

\* Steps that have succeeded, or are about to.
Finishing(s) ==
    stepStatus[s] = "succeeded" \/ \E w \in Workers : pc[w] = "finish" /\ StepOf(w) = s

FinishedJobs ==
    \A s \in Steps : Finishing(s) =>
        \A j \in Jobs : Inserted(j) /\ jobStep[j] = s => jobStatus[j] = "succeeded"

ReadyIsFresh ==
    \A s \in ready :
        /\ stepStatus[s] = "pending" /\ DepsSucceeded(s)
        /\ \A j \in Jobs : Inserted(j) => jobStep[j] # s

JobsInOrder == \A j \in Jobs : Inserted(j) => DepsSucceeded(jobStep[j])

RunsComplete ==
    \A r \in Runs : runStatus[r] = "succeeded" \/ <<r, "succeeded">> \in verdict => AllSucceeded(r)

StepInv == FinishedJobs /\ ReadyIsFresh /\ JobsInOrder /\ RunsComplete

\* A step that claims and inserts nothing: what workers own is left alone.
LEMMA OwnedStays ==
    ASSUME DispatchInv, OwnInv, UNCHANGED <<jobStep, crashes, calls>>,
           expired' \in [Jobs -> BOOLEAN],
           \A w \in Workers : Busy(w)' =>
              /\ Busy(w) /\ task'[w] = task[w] /\ held'[w] = held[w]
              /\ jobStatus'[task[w]] = jobStatus[task[w]] /\ ~expired'[task[w]],
           \A w \in Workers : pc'[w] \in {"hasBatches", "count", "finish"} =>
              /\ task'[w] = task[w] /\ task[w] \in Jobs
              /\ \/ pc[w] \in {"hasBatches", "count", "finish"}
                 \/ jobStatus'[task[w]] = "succeeded",
           \A w \in Workers : pc[w] = "succeed" =>
              \/ pc'[w] = "succeed" /\ task'[w] = task[w]
              \/ jobStatus'[task[w]] = "succeeded",
           \A j \in Jobs : jobStatus[j] = "succeeded" => jobStatus'[j] = "succeeded",
           \A j \in Jobs : Inserted(j)' <=> Inserted(j),
           \A j \in Jobs : \/ batch'[j] = batch[j]
                           \/ /\ batch[j] # "none" /\ batch'[j] = "succeeded"
                              /\ \E w \in Workers : pc'[w] = "succeed" /\ task'[w] = j
    PROVE  OwnInv'
<1> USE DEF OwnInv
<1>1. \A j \in Jobs : Reported(j) => Reported(j)'
  BY DEF Reported
<1>2. Owned'
  <2>1. \A v, w \in Workers : Busy(v)' /\ Busy(w)' /\ task'[v] = task'[w] => v = w
    BY DEF Owned
  <2>2. \A w \in Workers : Busy(w)' =>
          held'[w] = task'[w] /\ jobStatus'[task'[w]] = "running" /\ ~expired'[task'[w]]
    BY DEF Owned
  <2> QED
    BY <2>1, <2>2 DEF Owned
<1>3. \A w \in Workers :
          pc'[w] \in {"hasBatches", "count", "finish"} => jobStatus'[task'[w]] = "succeeded"
  BY DEF ReportsAreTrue
<1>4. \A j \in Jobs : batch'[j] = "succeeded" => Reported(j)'
  <2> SUFFICES ASSUME NEW j \in Jobs, batch'[j] = "succeeded" PROVE Reported(j)'
    OBVIOUS
  <2>1. CASE batch[j] = "succeeded"
    BY <1>1, <2>1 DEF ReportsAreTrue
  <2>2. CASE batch'[j] # batch[j]
    BY <2>2 DEF Reported
  <2> QED
    BY <2>1, <2>2
<1>5. \A j \in Jobs : batch'[j] = "none" <=> batch[j] = "none"
  OBVIOUS
<1>6. \A j \in Jobs : batch'[j] # "none" =>
          \E k \in Jobs : Inserted(k)' /\ batch'[k] = "none" /\ jobStep'[k] = jobStep'[j]
  BY <1>5 DEF ReportsAreTrue
<1>7. \A j, k \in Jobs :
          batch'[j] # "none" /\ Inserted(k)' /\ batch'[k] = "none" /\ jobStep'[k] = jobStep'[j] =>
              Reported(k)'
  BY <1>1, <1>5 DEF ReportsAreTrue
<1> QED
  BY <1>2, <1>3, <1>4, <1>6, <1>7 DEF ReportsAreTrue

\* A worker claims a job that nobody owns.
LEMMA ClaimKeepsOwned ==
    ASSUME DispatchInv, OwnInv, NEW w \in Workers, NEW j \in Jobs, ClaimJob(w, j)
    PROVE  OwnInv'
<1> USE DEF OwnInv, DispatchInv, Types
<1>1. /\ pc[w] = "idle" /\ jobStatus[j] = "pending"
      /\ jobStatus' = [jobStatus EXCEPT ![j] = "running"]
      /\ held' = [held EXCEPT ![w] = j]
      /\ expired' = [expired EXCEPT ![j] = FALSE]
      /\ pc' = [pc EXCEPT ![w] = "start"] /\ task' = [task EXCEPT ![w] = j]
      /\ UNCHANGED <<jobStep, batch, crashes, calls>>
  BY DEF ClaimJob, Q!Claim, At, GoTo, jobVars, envVars
<1>2. /\ \A v \in Workers \ {w} : pc'[v] = pc[v] /\ task'[v] = task[v] /\ held'[v] = held[v]
      /\ pc'[w] = "start" /\ task'[w] = j /\ held'[w] = j
      /\ jobStatus'[j] = "running" /\ expired'[j] = FALSE
      /\ \A k \in Jobs \ {j} : jobStatus'[k] = jobStatus[k] /\ expired'[k] = expired[k]
  BY <1>1 DEF Owned
<1>3. \A v \in Workers : Busy(v) => task[v] # j /\ v # w /\ task[v] \in Jobs
  BY <1>1 DEF Owned, Busy, WorkersHaveJobs
<1>4. Owned'
  <2>1. \A v \in Workers \ {w} : Busy(v)' => Busy(v)
    BY <1>2 DEF Busy
  <2>2. \A v \in Workers : Busy(v)' =>
          held'[v] = task'[v] /\ jobStatus'[task'[v]] = "running" /\ ~expired'[task'[v]]
    BY <1>2, <1>3, <2>1 DEF Owned
  <2>3. \A u, v \in Workers : Busy(u)' /\ Busy(v)' /\ task'[u] = task'[v] => u = v
    BY <1>2, <1>3, <2>1 DEF Owned
  <2>4. expired' \in [Jobs -> BOOLEAN]
    BY <1>1 DEF Owned
  <2> QED
    BY <2>2, <2>3, <2>4 DEF Owned
<1>5. \A k \in Jobs : Reported(k) => Reported(k)'
  BY <1>1, <1>2 DEF Reported
<1>6. \A k \in Jobs : Inserted(k)' <=> Inserted(k)
  BY <1>1, <1>2 DEF Inserted
<1>7. \A v \in Workers :
          pc'[v] \in {"hasBatches", "count", "finish"} => jobStatus'[task'[v]] = "succeeded"
  BY <1>1, <1>2 DEF ReportsAreTrue, WorkersHaveJobs
<1>8. ReportsAreTrue'
  BY <1>1, <1>5, <1>6, <1>7 DEF ReportsAreTrue
<1> QED
  BY <1>1, <1>4, <1>8

\* New rows belong to nobody.  A step gets a job of its own when it has none,
\* and batches from the worker on that job, which has then succeeded.
LEMMA InsertKeepsOwned ==
    ASSUME DispatchInv, BatchInv, OwnInv, NEW A, NEW owner \in [A -> Steps],
           NEW new_ \in {"none", "pending"}, InsertJobs(owner, new_),
           UNCHANGED <<crashes, calls, task>>,
           \A w \in Workers : pc'[w] = pc[w] \/ (pc[w] = "exec" /\ pc'[w] = "succeed"),
           \A a \in A : \A k \in Jobs :
              Inserted(k) /\ batch[k] = "none" /\ jobStep[k] = owner[a] =>
                 new_ = "pending" /\ \E w \in Workers : pc'[w] = "succeed" /\ task[w] = k,
           new_ = "pending" => \A a \in A : \E k \in Jobs :
              Inserted(k) /\ batch[k] = "none" /\ jobStep[k] = owner[a]
    PROVE  OwnInv'
<1> USE DEF OwnInv, DispatchInv
<1>1. /\ held' = held
      /\ \A j \in Jobs :
           \/ /\ jobStatus[j] = "none" /\ jobStatus'[j] = "pending" /\ batch'[j] = new_
              /\ \E a \in A : jobStep'[j] = owner[a]
           \/ /\ jobStatus'[j] = jobStatus[j]
              /\ jobStep'[j] = jobStep[j] /\ batch'[j] = batch[j]
  BY InsertsPending
<1>2. expired' = expired
  BY DEF InsertJobs, Q!Enqueue
<1>3. \A w \in Workers : Busy(w)' <=> Busy(w)
  BY DEF Busy
<1>4. \A w \in Workers : pc[w] # "idle" => task[w] \in Jobs /\ jobStatus'[task[w]] = jobStatus[task[w]]
  BY <1>1 DEF WorkersHaveJobs
<1>5. Owned'
  BY <1>1, <1>2, <1>3, <1>4 DEF Owned, Busy
<1>6. \A j \in Jobs : Reported(j) => Reported(j)'
  BY <1>1 DEF Reported
<1>7. \A w \in Workers :
          pc'[w] \in {"hasBatches", "count", "finish"} => jobStatus'[task'[w]] = "succeeded"
  BY <1>4 DEF ReportsAreTrue
<1>8. \A j \in Jobs : batch'[j] = "succeeded" => Reported(j)'
  BY <1>1, <1>6 DEF ReportsAreTrue
<1>9. \A j \in Jobs : Inserted(j) =>
          Inserted(j)' /\ jobStep'[j] = jobStep[j] /\ batch'[j] = batch[j]
  BY <1>1 DEF Inserted
<1>10. \A j \in Jobs : batch[j] # "none" => Inserted(j)
  BY DEF BatchInv, BatchRowsHaveJobs, Inserted
<1>11. ASSUME NEW j \in Jobs, batch'[j] # "none"
       PROVE  /\ \E k \in Jobs : Inserted(k)' /\ batch'[k] = "none" /\ jobStep'[k] = jobStep'[j]
              /\ \A k \in Jobs :
                    Inserted(k)' /\ batch'[k] = "none" /\ jobStep'[k] = jobStep'[j] => Reported(k)'
  <2>1. CASE Inserted(j)
    <3>1. batch[j] # "none" /\ jobStep'[j] = jobStep[j]
      BY <1>9, <1>11, <2>1
    <3>2. PICK k \in Jobs : Inserted(k) /\ batch[k] = "none" /\ jobStep[k] = jobStep[j]
      BY <3>1 DEF ReportsAreTrue
    <3>3. ASSUME NEW i \in Jobs, Inserted(i)', batch'[i] = "none", jobStep'[i] = jobStep[j]
          PROVE  Reported(i)'
      <4>1. CASE Inserted(i)
        BY <1>6, <1>9, <3>1, <3>3, <4>1 DEF ReportsAreTrue
      <4>2. CASE ~Inserted(i)
        <5>1. new_ = "none" /\ \E a \in A : jobStep[j] = owner[a]
          BY <1>1, <3>3, <4>2 DEF Inserted
        <5> QED
          BY <3>2, <5>1
      <4> QED
        BY <4>1, <4>2
    <3> QED
      BY <1>9, <3>1, <3>2, <3>3
  <2>2. CASE ~Inserted(j)
    <3>1. new_ = "pending" /\ \E a \in A : jobStep'[j] = owner[a]
      BY <1>1, <1>10, <1>11, <2>2 DEF Inserted
    <3>2. PICK a \in A : jobStep'[j] = owner[a]
      BY <3>1
    <3>3. \E k \in Jobs : Inserted(k) /\ batch[k] = "none" /\ jobStep[k] = owner[a]
      BY <3>1
    <3>4. ASSUME NEW k \in Jobs, Inserted(k)', batch'[k] = "none", jobStep'[k] = owner[a]
          PROVE  Reported(k)'
      <4>1. Inserted(k) /\ batch[k] = "none" /\ jobStep[k] = owner[a]
        BY <1>1, <3>1, <3>4 DEF Inserted
      <4> QED
        BY <4>1 DEF Reported
    <3> QED
      BY <1>9, <3>2, <3>3, <3>4
  <2> QED
    BY <2>1, <2>2
<1>12. ReportsAreTrue'
  BY <1>7, <1>8, <1>11 DEF ReportsAreTrue
<1> QED
  BY <1>5, <1>12

\* A step that inserts nothing and keeps what has succeeded: nothing the
\* dispatcher and the watcher have read becomes false.
LEMMA OrderStays ==
    ASSUME DispatchInv, StepInv, jobStep' = jobStep,
           \A j \in Jobs : Inserted(j)' <=> Inserted(j),
           \A j \in Jobs : jobStatus[j] = "succeeded" => jobStatus'[j] = "succeeded",
           \A s \in Steps : stepStatus[s] = "succeeded" => stepStatus'[s] = "succeeded",
           \A s \in Steps : \/ stepStatus'[s] = stepStatus[s]
                            \/ \E j \in Jobs : Inserted(j) /\ jobStep[j] = s,
           \A s \in Steps : Finishing(s)' =>
              \/ Finishing(s)
              \/ \A j \in Jobs : Inserted(j) /\ jobStep[j] = s => jobStatus'[j] = "succeeded",
           ready' \subseteq ready,
           \A r \in Runs : runStatus'[r] = "succeeded" \/ <<r, "succeeded">> \in verdict' =>
              \/ runStatus[r] = "succeeded" \/ <<r, "succeeded">> \in verdict
              \/ AllSucceeded(r)
    PROVE  StepInv'
<1> USE DEF StepInv, DispatchInv
<1>1. \A s \in Steps : DepsSucceeded(s) => DepsSucceeded(s)'
  BY StepAssumption DEF DepsSucceeded
<1>2. \A r \in Runs : AllSucceeded(r) => AllSucceeded(r)'
  BY DEF AllSucceeded, StepsOf
<1>3. FinishedJobs'
  BY DEF FinishedJobs
<1>4. ReadyIsFresh'
  BY <1>1 DEF ReadyIsFresh, Types
<1>5. JobsInOrder'
  BY <1>1 DEF JobsInOrder, JobsHaveRuns, Inserted
<1>6. RunsComplete'
  BY <1>2 DEF RunsComplete
<1> QED
  BY <1>3, <1>4, <1>5, <1>6

\* New jobs of steps S, none of which is finishing, whose dependencies have
\* succeeded.
LEMMA InsertKeepsOrder ==
    ASSUME DispatchInv, StepInv, NEW A, NEW owner \in [A -> Steps],
           NEW new_ \in {"none", "pending"}, InsertJobs(owner, new_),
           \A a \in A : ~Finishing(owner[a]) /\ DepsSucceeded(owner[a]),
           \A s \in ready' : s \in ready /\ stepStatus'[s] = "pending"
                             /\ \A a \in A : owner[a] # s,
           \A s \in Steps : Finishing(s)' => Finishing(s),
           \A s \in Steps : stepStatus[s] = "succeeded" => stepStatus'[s] = "succeeded",
           verdict' = verdict,
           \A r \in Runs : runStatus'[r] = "succeeded" => runStatus[r] = "succeeded"
    PROVE  StepInv'
<1> USE DEF StepInv, DispatchInv
<1>1. \A j \in Jobs :
           \/ /\ jobStatus[j] = "none" /\ jobStatus'[j] = "pending"
              /\ \E a \in A : jobStep'[j] = owner[a]
           \/ jobStatus'[j] = jobStatus[j] /\ jobStep'[j] = jobStep[j]
  BY InsertsPending
<1>2. \A s \in Steps : DepsSucceeded(s) => DepsSucceeded(s)'
  BY StepAssumption DEF DepsSucceeded
<1>3. \A r \in Runs : AllSucceeded(r) => AllSucceeded(r)'
  BY DEF AllSucceeded, StepsOf
<1>4. FinishedJobs'
  BY <1>1 DEF FinishedJobs, Inserted
<1>5. ReadyIsFresh'
  BY <1>1, <1>2 DEF ReadyIsFresh, Types, Inserted
<1>6. JobsInOrder'
  <2> SUFFICES ASSUME NEW j \in Jobs, Inserted(j)' PROVE DepsSucceeded(jobStep[j])'
    BY DEF JobsInOrder
  <2>1. CASE Inserted(j)
    <3>1. jobStep'[j] = jobStep[j] /\ jobStep[j] \in Steps /\ DepsSucceeded(jobStep[j])
      BY <1>1, <2>1 DEF JobsInOrder, JobsHaveRuns, Inserted
    <3> QED
      BY <1>2, <3>1
  <2>2. CASE ~Inserted(j)
    <3>1. PICK a \in A : jobStep'[j] = owner[a]
      BY <1>1, <2>2 DEF Inserted
    <3> QED
      BY <1>2, <3>1
  <2> QED
    BY <2>1, <2>2
<1>7. RunsComplete'
  BY <1>3 DEF RunsComplete
<1> QED
  BY <1>4, <1>5, <1>6, <1>7

\* startRun, on the steps of a run without jobs or results.
LEMMA StartRunKeepsOrder ==
    ASSUME DispatchInv, BatchInv, OwnInv, StepInv, NEW r \in Runs, NEW mode, StartRun(r, mode)
    PROVE  OwnInv' /\ StepInv'
<1> DEFINE S == {s \in StepsOf(r) : mode = "auto" /\ Deps[s] = {}}
           owner == [s \in S |-> s]
<1> USE DEF DispatchInv
<1>1. /\ owner \in [S -> Steps] /\ InsertJobs(owner, "none")
      /\ \A s \in S : owner[s] = s /\ RunOf[s] = r /\ DepsSucceeded(s)
  BY DEF StartRun, InsertStepJobs, StepsOf, DepsSucceeded
<1>2. /\ UNCHANGED <<crashes, calls, task, pc, ready, verdict>>
      /\ runStatus[r] = "none" /\ runStatus' = [runStatus EXCEPT ![r] = "running"]
      /\ stepStatus' = [s \in Steps |-> IF RunOf[s] = r THEN "pending" ELSE stepStatus[s]]
  BY DEF StartRun, envVars, workerVars, loopVars
<1>3. \A k \in Jobs : Inserted(k) => jobStep[k] \in Steps /\ RunOf[jobStep[k]] # r
  BY <1>2 DEF JobsHaveRuns, Inserted
<1>4. \A s \in Steps : RunOf[s] = r => ~Finishing(s)
  BY <1>2, <1>3 DEF Finishing, StepsHaveRuns, WorkersHaveJobs, StepOf, Inserted
<1> HIDE DEF owner, S
<1>5. OwnInv'
  BY <1>1, <1>2, <1>3, InsertKeepsOwned
<1>6. \A w \in Workers : pc[w] # "idle" => StepOf(w)' = StepOf(w)
  BY <1>1, <1>2, InsertsPending DEF WorkersHaveJobs, StepOf
<1>7. \A s \in Steps : Finishing(s)' => Finishing(s)
  BY <1>2, <1>6 DEF Finishing
<1>8. \A s \in Steps : stepStatus[s] = "succeeded" => stepStatus'[s] = "succeeded"
  BY <1>2, <1>4 DEF Finishing
<1>9. \A s \in ready' : s \in ready /\ stepStatus'[s] = "pending" /\ \A a \in S : owner[a] # s
  BY <1>1, <1>2 DEF ReadyStepsHaveNoJob, StepInv, ReadyIsFresh, Types
<1>10. \A q \in Runs : runStatus'[q] = "succeeded" => runStatus[q] = "succeeded"
  BY <1>2 DEF Types
<1>11. \A s \in S : s \in Steps /\ owner[s] = s
  BY <1>1 DEF S, StepsOf
<1>12. StepInv'
  BY <1>1, <1>2, <1>4, <1>7, <1>8, <1>9, <1>10, <1>11, InsertKeepsOrder
<1> QED
  BY <1>5, <1>12

\* The dispatcher: the steps it has found stay pending and without a job until
\* it enqueues them, because only a worker on a job of a step changes the step.
LEMMA DispatchKeepsOrder ==
    ASSUME DispatchInv, BatchInv, OwnInv, StepInv, Dispatch
    PROVE  OwnInv' /\ StepInv'
<1> USE DEF DispatchInv
<1>1. CASE DispatchSelect
  <2>1. /\ ready' = {s \in Steps : Dispatchable(s)}
        /\ UNCHANGED <<jobStatus, held, expired, jobStep, batch, runStatus, stepStatus, verdict, pc,
                       task, crashes, calls>>
    BY <1>1 DEF DispatchSelect, queueVars, jobVars, tableVars, workerVars, envVars
  <2>2. \A j \in Jobs : (Inserted(j)' <=> Inserted(j)) /\ (Reported(j)' <=> Reported(j))
    BY <2>1 DEF Inserted, Reported
  <2>3. OwnInv'
    BY <2>1, <2>2 DEF OwnInv, Owned, Busy, ReportsAreTrue
  <2>4. \A s \in Steps : (Finishing(s)' <=> Finishing(s)) /\ (DepsSucceeded(s)' <=> DepsSucceeded(s))
    BY <2>1 DEF Finishing, StepOf, DepsSucceeded
  <2>5. ASSUME NEW s \in Steps, Dispatchable(s), NEW j \in Jobs, Inserted(j), jobStep[j] = s
        PROVE  FALSE
    <3>1. \A k \in Jobs : Inserted(k) /\ batch[k] = "none" => jobStep[k] # s
      BY <2>5
         DEF Dispatchable, StepJobs, BatchesOf, JobsOf, Q!Exists, Inserted, BatchInv,
             NothingDeleted
    <3> QED
      BY <2>5, <3>1 DEF OwnInv, ReportsAreTrue
  <2>6. ReadyIsFresh'
    BY <2>1, <2>2, <2>4, <2>5 DEF ReadyIsFresh, Dispatchable
  <2>7. FinishedJobs' /\ RunsComplete'
    BY <2>1, <2>2, <2>4 DEF StepInv, FinishedJobs, RunsComplete, AllSucceeded, StepsOf
  <2>8. JobsInOrder'
    BY <2>1, <2>2, <2>4 DEF StepInv, JobsInOrder, JobsHaveRuns, Inserted
  <2> QED
    BY <2>3, <2>6, <2>7, <2>8 DEF StepInv
<1>2. ASSUME NEW s \in Steps, DispatchEnqueue(s) PROVE OwnInv' /\ StepInv'
  <2> DEFINE owner == [t \in {s} |-> t]
  <2>1. /\ owner \in [{s} -> Steps] /\ InsertJobs(owner, "none") /\ owner[s] = s
        /\ s \in ready /\ ready' = ready \ {s}
        /\ UNCHANGED <<crashes, calls, task, pc, stepStatus, verdict, runStatus>>
    BY <1>2 DEF DispatchEnqueue, InsertStepJobs, tableVars, workerVars, envVars
  <2> HIDE DEF owner
  <2>2. /\ \A k \in Jobs : Inserted(k) => jobStep[k] # s
        /\ DepsSucceeded(s) /\ stepStatus[s] = "pending"
    BY <2>1 DEF StepInv, ReadyIsFresh
  <2>3. OwnInv'
    BY <2>1, <2>2, InsertKeepsOwned
  <2>4. ~Finishing(s)
    BY <2>2 DEF Finishing, WorkersHaveJobs, StepOf, Inserted
  <2>5. \A w \in Workers : pc[w] # "idle" => StepOf(w)' = StepOf(w)
    BY <2>1, InsertsPending DEF WorkersHaveJobs, StepOf
  <2>6. \A t \in Steps : Finishing(t)' => Finishing(t)
    BY <2>1, <2>5 DEF Finishing
  <2>7. \A t \in ready' : t \in ready /\ stepStatus'[t] = "pending" /\ \A a \in {s} : owner[a] # t
    BY <2>1 DEF StepInv, ReadyIsFresh
  <2>8. StepInv'
    BY <2>1, <2>2, <2>4, <2>6, <2>7, InsertKeepsOrder
  <2> QED
    BY <2>3, <2>8
<1> QED
  BY <1>1, <1>2 DEF Dispatch

\* What a worker may do to its step: a step that has succeeded stays so, and one
\* that is about to has no job that has not.
LEMMA WorkerKeepsOrder ==
    ASSUME Undisturbed, DispatchInv, DispatchInv', BatchInv, OwnInv, StepInv, NEW w \in Workers,
           Handle(w) \/ \E j \in Jobs : ClaimJob(w, j)
    PROVE  OwnInv' /\ StepInv'
<1> USE DEF DispatchInv
<1>0. PICK s : s = StepOf(w)
  OBVIOUS
<1>t. PICK k : k = task[w]
  OBVIOUS
<1>1. pc[w] # "idle" => k \in Jobs /\ Inserted(k) /\ s \in Steps /\ jobStep[k] = s
  BY <1>0, <1>t DEF WorkersHaveJobs, JobsHaveRuns, StepOf, Inserted
\* Most statements change no row and no run.
<1>2. ASSUME UNCHANGED <<queueVars, jobStep, crashes, calls, ready, verdict, runStatus>>,
             pc[w] # "idle",
             NEW next, pc' = [pc EXCEPT ![w] = next],
             task' = task \/ (next = "idle" /\ task' = [task EXCEPT ![w] = NoJob]),
             next \in {"exec", "batchDone", "succeed", "fail"} => Busy(w),
             next \in {"idle", "exec", "batchDone", "succeed", "fail", "count", "finish"},
             next \in {"count", "finish"} => pc[w] \in {"hasBatches", "count", "finish"},
             pc[w] # "succeed",
             \A j \in Jobs : \/ batch'[j] = batch[j]
                             \/ /\ batch[j] # "none" /\ batch'[j] = "succeeded"
                                /\ next = "succeed" /\ k = j /\ task' = task,
             \A t \in Steps \ {s} : stepStatus'[t] = stepStatus[t],
             stepStatus[s] = "succeeded" => stepStatus'[s] = "succeeded",
             next = "finish" \/ stepStatus'[s] = "succeeded" =>
                \A j \in Jobs : Inserted(j) /\ jobStep[j] = s => jobStatus[j] = "succeeded"
      PROVE  OwnInv' /\ StepInv'
  <2>1. /\ \A v \in Workers \ {w} : pc'[v] = pc[v] /\ task'[v] = task[v]
        /\ pc'[w] = next
        /\ UNCHANGED <<jobStatus, held, expired>>
    BY <1>2 DEF Types, queueVars
  <2>2. next # "idle" => task'[w] = task[w]
    BY <1>2
  <2>3. OwnInv'
    <3>1. expired' \in [Jobs -> BOOLEAN]
      BY <2>1 DEF OwnInv, Owned
    <3>2. \A v \in Workers : Busy(v)' =>
              /\ Busy(v) /\ task'[v] = task[v] /\ held'[v] = held[v]
              /\ jobStatus'[task[v]] = jobStatus[task[v]] /\ ~expired'[task[v]]
      BY <1>2, <2>1, <2>2 DEF Busy, OwnInv, Owned
    <3>3. \A v \in Workers : pc'[v] \in {"hasBatches", "count", "finish"} =>
              /\ task'[v] = task[v] /\ task[v] \in Jobs
              /\ pc[v] \in {"hasBatches", "count", "finish"}
      BY <1>2, <2>1, <2>2 DEF WorkersHaveJobs
    <3>4. \A v \in Workers : pc[v] = "succeed" => pc'[v] = "succeed" /\ task'[v] = task[v]
      BY <1>2, <2>1
    <3>5. \A j \in Jobs : Inserted(j)' <=> Inserted(j)
      BY <2>1 DEF Inserted
    <3>6. \A j \in Jobs : \/ batch'[j] = batch[j]
                          \/ /\ batch[j] # "none" /\ batch'[j] = "succeeded"
                             /\ \E v \in Workers : pc'[v] = "succeed" /\ task'[v] = j
      BY <1>2, <1>t, <2>1
    <3> QED
      BY <1>2, <2>1, <3>1, <3>2, <3>3, <3>4, <3>5, <3>6, OwnedStays
  <2>4. StepOf(w)' = s \/ next = "idle"
    BY <1>0, <1>2, <2>2 DEF StepOf
  <2>5. \A v \in Workers \ {w} : StepOf(v)' = StepOf(v)
    BY <1>2, <2>1 DEF StepOf
  <2>6. \A t \in Steps : Finishing(t)' =>
              \/ Finishing(t)
              \/ \A j \in Jobs : Inserted(j) /\ jobStep[j] = t => jobStatus'[j] = "succeeded"
    BY <1>2, <2>1, <2>4, <2>5 DEF Finishing
  <2>7. \A t \in Steps : \/ stepStatus'[t] = stepStatus[t]
                         \/ \E j \in Jobs : Inserted(j) /\ jobStep[j] = t
    BY <1>1, <1>2
  <2>8. \A j \in Jobs : Inserted(j)' <=> Inserted(j)
    BY <2>1 DEF Inserted
  <2>9. StepInv'
    BY <1>2, <2>1, <2>6, <2>7, <2>8, OrderStays
  <2> QED
    BY <2>3, <2>9
<1>3. CASE StartStep(w) \/ ExecHandler(w) \/ ExecError(w) \/ BatchDone(w)
           \/ (ExecCopyTable(w) /\ BatchesOf(s) # {})
  <2>1. /\ UNCHANGED <<queueVars, jobStep, crashes, calls, ready, verdict, runStatus, task>>
        /\ pc[w] \in {"start", "exec", "batchDone"}
        /\ \E next \in {"exec", "batchDone", "succeed", "fail"} :
              /\ pc' = [pc EXCEPT ![w] = next]
              /\ batch' # batch => next = "succeed" /\ pc[w] = "batchDone"
    BY <1>0, <1>3
       DEF StartStep, ExecHandler, ExecError, BatchDone, ExecCopyTable, At, GoTo, jobVars,
           tableVars, loopVars, envVars
  <2>2. /\ \A t \in Steps \ {s} : stepStatus'[t] = stepStatus[t]
        /\ stepStatus'[s] = "succeeded" <=> stepStatus[s] = "succeeded"
    BY <1>0, <1>1, <1>3, <2>1
       DEF StartStep, ExecHandler, ExecError, BatchDone, ExecCopyTable, tableVars, Types
  <2>3. \A j \in Jobs : \/ batch'[j] = batch[j]
                        \/ batch[j] # "none" /\ batch'[j] = "succeeded" /\ batch' # batch /\ k = j
    <3>1. CASE batch' = batch
      BY <3>1
    <3>2. CASE BatchDone(w)
      <4>1. batch[k] # "none" /\ batch' = [batch EXCEPT ![k] = "succeeded"]
        BY <1>t, <3>2 DEF BatchDone, At, BatchInv, Witnessed
      <4>2. batch \in [Jobs -> {"none", "pending", "succeeded"}]
        BY DEF Types
      <4> QED
        BY <4>1, <4>2
    <3> QED
      BY <1>0, <1>3, <3>1, <3>2
         DEF StartStep, ExecHandler, ExecError, ExecCopyTable, jobVars
  <2>4. stepStatus[s] = "succeeded" =>
           \A j \in Jobs : Inserted(j) /\ jobStep[j] = s => jobStatus[j] = "succeeded"
    BY <1>1, <2>1 DEF StepInv, FinishedJobs, Finishing
  <2>5. PICK next \in {"exec", "batchDone", "succeed", "fail"} :
              /\ pc' = [pc EXCEPT ![w] = next]
              /\ batch' # batch => next = "succeed" /\ pc[w] = "batchDone"
    BY <2>1
  <2>6. Busy(w) /\ pc[w] \notin {"idle", "succeed"}
    BY <2>1 DEF Busy
  <2> QED
    BY <1>2, <2>1, <2>2, <2>3, <2>4, <2>5, <2>6
\* A worker that has reported its job decides whether the step is complete.
<1>4. CASE HasBatches(w) \/ CountUnfinished(w) \/ FinishStep(w)
  <2>1. /\ UNCHANGED <<queueVars, jobStep, batch, crashes, calls, ready, verdict, runStatus>>
        /\ pc[w] \in {"hasBatches", "count", "finish"}
        /\ \A t \in Steps \ {s} : stepStatus'[t] = stepStatus[t]
    BY <1>0, <1>4
       DEF HasBatches, CountUnfinished, FinishStep, At, jobVars, tableVars, loopVars, envVars, Types
  <2>2. jobStatus[k] = "succeeded"
    BY <1>t, <2>1 DEF OwnInv, ReportsAreTrue
  <2> DEFINE Complete ==
               \A j \in Jobs : Inserted(j) /\ jobStep[j] = s => jobStatus[j] = "succeeded"
  <2>3. stepStatus[s] = "succeeded" \/ pc[w] = "finish" => Complete
    BY <1>0, <1>1, <2>1 DEF StepInv, FinishedJobs, Finishing
  <2>4. HasBatches(w) /\ BatchesOf(s) = {} => Complete
    <3>1. BatchesOf(s) = {} => \A j \in Jobs : Inserted(j) /\ jobStep[j] = s => j \in StepJobs(s)
      BY DEF StepJobs, JobsOf, Q!Exists, Inserted, BatchInv, NothingDeleted
    <3>2. k \in Jobs /\ Inserted(k) /\ jobStep[k] = s /\ s \in Steps
      BY <1>1, <2>1
    <3>3. BatchesOf(s) = {} => \A j \in Jobs : Inserted(j) /\ jobStep[j] = s => j = k
      BY <3>1, <3>2 DEF SingleDispatch
    <3> QED
      BY <2>2, <3>3
  <2>5. CountUnfinished(w) /\ Unfinished(s) = {} => Complete
    <3> SUFFICES ASSUME CountUnfinished(w), Unfinished(s) = {},
                        NEW j \in Jobs, Inserted(j), jobStep[j] = s
                 PROVE  jobStatus[j] = "succeeded"
      OBVIOUS
    <3>1. jobStatus[j] \in {"succeeded", "dead"} /\ batch[j] # "pending"
      BY DEF Unfinished, BatchesOf, JobsOf, HasStatus, Q!Exists, Types, Q!Statuses, Inserted,
             BatchInv, NothingDeleted
    <3>2. \A v \in Workers : pc[v] = "succeed" => jobStatus[task[v]] = "running"
      BY DEF OwnInv, Owned, Busy
    <3>3. Reported(j) => jobStatus[j] = "succeeded"
      BY <3>1, <3>2 DEF Reported
    <3>4. CASE batch[j] = "succeeded"
      BY <3>3, <3>4 DEF OwnInv, ReportsAreTrue
    <3>5. CASE batch[j] = "none"
      <4>1. CASE BatchesOf(s) # {}
        <5>1. \E i \in Jobs : batch[i] # "none" /\ jobStep[i] = s
          BY <4>1 DEF BatchesOf, JobsOf
        <5> QED
          BY <3>3, <3>5, <5>1 DEF OwnInv, ReportsAreTrue
      <4>2. CASE BatchesOf(s) = {}
        <5>1. k \in Jobs /\ Inserted(k) /\ jobStep[k] = s /\ s \in Steps
          BY <1>1, <2>1
        <5>2. j \in StepJobs(s) /\ k \in StepJobs(s)
          BY <3>1, <4>2, <5>1, <2>2 DEF StepJobs, JobsOf, Q!Exists
        <5> QED
          BY <2>2, <5>1, <5>2 DEF SingleDispatch
      <4> QED
        BY <4>1, <4>2
    <3> QED
      BY <3>1, <3>4, <3>5 DEF Types
  <2>6. PICK next \in {"idle", "count", "finish"} :
           /\ pc' = [pc EXCEPT ![w] = next]
           /\ task' = task \/ (next = "idle" /\ task' = [task EXCEPT ![w] = NoJob])
           /\ next = "finish" => Complete
           /\ stepStatus'[s] = "succeeded" => Complete
           /\ stepStatus[s] = "succeeded" => stepStatus'[s] = "succeeded"
    <3>1. CASE HasBatches(w)
      BY <1>0, <2>3, <2>4, <3>1 DEF HasBatches, GoTo, tableVars
    <3>2. CASE CountUnfinished(w)
      BY <1>0, <2>3, <2>5, <3>2 DEF CountUnfinished, GoTo, Return, tableVars
    <3>3. CASE FinishStep(w)
      <4>1. stepStatus'[s] = "succeeded"
        BY <1>0, <1>1, <2>1, <3>3 DEF FinishStep, Types
      <4> QED
        BY <2>3, <3>3, <4>1 DEF FinishStep, GoTo, Return, At
    <3> QED
      BY <1>4, <3>1, <3>2, <3>3
  <2> QED
    BY <1>2, <2>1, <2>3, <2>6
<1>5. CASE FailStep(w)
  <2>1. /\ UNCHANGED <<queueVars, jobStep, batch, crashes, calls, ready, verdict, runStatus>>
        /\ pc[w] = "failStep" /\ pc' = [pc EXCEPT ![w] = "idle"]
        /\ task' = [task EXCEPT ![w] = NoJob]
        /\ stepStatus' = [stepStatus EXCEPT ![s] =
              IF HasStatus(JobsOf({s}), {"dead"}) # {} THEN "failed" ELSE @]
    BY <1>0, <1>5 DEF FailStep, At, GoTo, Return, jobVars, loopVars, envVars
  <2>2. s \in Steps
    BY <1>1, <2>1
  <2>3. stepStatus[s] = "succeeded" => HasStatus(JobsOf({s}), {"dead"}) = {}
    BY <2>2 DEF StepInv, FinishedJobs, Finishing, HasStatus, JobsOf, Q!Exists, Inserted
  <2>4. /\ \A t \in Steps \ {s} : stepStatus'[t] = stepStatus[t]
        /\ stepStatus'[s] = "succeeded" <=> stepStatus[s] = "succeeded"
    BY <2>1, <2>2, <2>3 DEF Types
  <2>5. stepStatus[s] = "succeeded" =>
           \A j \in Jobs : Inserted(j) /\ jobStep[j] = s => jobStatus[j] = "succeeded"
    BY <2>2 DEF StepInv, FinishedJobs, Finishing
  <2> QED
    BY <1>2, <2>1, <2>4, <2>5
\* The report: of a row that is the worker's own.
<1>6. CASE SucceedJob(w) \/ FailJob(w) \/ (LoseStatement(w) /\ pc[w] = "fail")
  <2>1. /\ Busy(w) /\ pc[w] \in {"succeed", "fail"}
        /\ UNCHANGED <<jobStep, batch, stepStatus, task, crashes, calls, ready, verdict, runStatus>>
        /\ pc[w] = "succeed" => SucceedJob(w)
    BY <1>6, LossyAssumption
       DEF SucceedJob, FailJob, LoseStatement, At, Busy, jobVars, tableVars, loopVars, envVars
  <2>2. /\ k \in Jobs /\ held[w] = k /\ jobStatus[k] = "running"
        /\ \A v \in Workers \ {w} : Busy(v) => task[v] # k
    BY <1>1, <1>t, <2>1 DEF OwnInv, Owned, Busy
  <2>3. /\ \A j \in Jobs \ {k} : jobStatus'[j] = jobStatus[j] /\ expired'[j] = expired[j]
        /\ jobStatus'[k] \in {"succeeded", "pending", "dead", "running"}
        /\ pc[w] = "succeed" => jobStatus'[k] = "succeeded"
        /\ expired' \in [Jobs -> BOOLEAN]
        /\ \A v \in Workers \ {w} : held'[v] = held[v]
        /\ pc' = [pc EXCEPT ![w] = IF pc[w] = "succeed" THEN "hasBatches" ELSE "failStep"]
    <3>1. expired \in [Jobs -> BOOLEAN]
      BY DEF OwnInv, Owned
    <3>2. CASE SucceedJob(w)
      BY <2>1, <2>2, <3>1, <3>2 DEF SucceedJob, At, Q!Succeed, Q!Exists, GoTo, Types
    <3>3. CASE FailJob(w)
      BY <2>1, <2>2, <3>1, <3>3 DEF FailJob, At, Q!Fail, Q!Exists, Q!AfterFailure, GoTo, Types
    <3>4. CASE LoseStatement(w) /\ pc[w] = "fail"
      BY <2>1, <2>2, <3>1, <3>4 DEF LoseStatement, Q!Abandon, Q!rows, GoTo, Types
    <3> QED
      BY <1>6, <3>2, <3>3, <3>4
  <2>4. /\ \A v \in Workers \ {w} : pc'[v] = pc[v]
        /\ pc'[w] = (IF pc[w] = "succeed" THEN "hasBatches" ELSE "failStep")
    BY <2>3 DEF Types
  <2>5. OwnInv'
    <3>1. \A v \in Workers : Busy(v)' =>
              /\ Busy(v) /\ task'[v] = task[v] /\ held'[v] = held[v]
              /\ jobStatus'[task[v]] = jobStatus[task[v]] /\ ~expired'[task[v]]
      <4> SUFFICES ASSUME NEW v \in Workers, Busy(v)'
                   PROVE  /\ Busy(v) /\ task'[v] = task[v] /\ held'[v] = held[v]
                          /\ jobStatus'[task[v]] = jobStatus[task[v]] /\ ~expired'[task[v]]
        OBVIOUS
      <4>1. v # w /\ Busy(v) /\ task[v] \in Jobs
        BY <2>4 DEF Busy, WorkersHaveJobs
      <4>2. task[v] # k
        BY <2>2, <4>1
      <4> QED
        BY <2>1, <2>3, <4>1, <4>2 DEF OwnInv, Owned
    <3>2. \A v \in Workers : pc'[v] \in {"hasBatches", "count", "finish"} =>
              /\ task'[v] = task[v] /\ task[v] \in Jobs
              /\ \/ pc[v] \in {"hasBatches", "count", "finish"}
                 \/ jobStatus'[task[v]] = "succeeded"
      BY <1>t, <2>1, <2>2, <2>3, <2>4 DEF WorkersHaveJobs
    <3>3. \A v \in Workers : pc[v] = "succeed" =>
              \/ pc'[v] = "succeed" /\ task'[v] = task[v]
              \/ jobStatus'[task[v]] = "succeeded"
      BY <1>t, <2>1, <2>3, <2>4
    <3>4. \A j \in Jobs : jobStatus[j] = "succeeded" => jobStatus'[j] = "succeeded"
      BY <2>2, <2>3
    <3>5. \A j \in Jobs : Inserted(j)' <=> Inserted(j)
      BY <2>2, <2>3 DEF Inserted
    <3> QED
      BY <2>1, <2>3, <3>1, <3>2, <3>3, <3>4, <3>5, OwnedStays
  <2>6. \A t \in Steps : Finishing(t)' => Finishing(t)
    BY <2>1, <2>4 DEF Finishing, StepOf
  <2>7. StepInv'
    <3>1. \A j \in Jobs : Inserted(j)' <=> Inserted(j)
      BY <2>2, <2>3 DEF Inserted
    <3>2. \A j \in Jobs : jobStatus[j] = "succeeded" => jobStatus'[j] = "succeeded"
      BY <2>2, <2>3
    <3> QED
      BY <2>1, <2>6, <3>1, <3>2, OrderStays
  <2> QED
    BY <2>5, <2>7
<1>7. CASE LoseStatement(w) /\ pc[w] # "fail"
  <2>1. /\ pc[w] \in {"start", "batchDone", "hasBatches", "count", "finish", "failStep"}
        /\ UNCHANGED <<queueVars, jobStep, batch, stepStatus, crashes, calls, ready, verdict,
                       runStatus>>
    BY <1>7, LossyAssumption
       DEF LoseStatement, Undisturbed, jobVars, tableVars, loopVars, envVars
  <2>2. PICK next \in {"exec", "succeed", "idle"} :
           /\ pc' = [pc EXCEPT ![w] = next]
           /\ task' = task \/ (next = "idle" /\ task' = [task EXCEPT ![w] = NoJob])
           /\ next # "idle" => Busy(w)
    BY <1>7, <2>1 DEF LoseStatement, GoTo, Return, Busy
  <2>3. stepStatus[s] = "succeeded" =>
           \A j \in Jobs : Inserted(j) /\ jobStep[j] = s => jobStatus[j] = "succeeded"
    BY <1>1, <2>1 DEF StepInv, FinishedJobs, Finishing
  <2> QED
    BY <1>2, <2>1, <2>2, <2>3
<1>8. CASE ExecCopyTable(w) /\ BatchesOf(s) = {}
  <2> DEFINE A == 1..NBatches[s]
             owner == [i \in A |-> s]
  <2>1. /\ pc[w] = "exec" /\ batch[k] = "none"
        /\ InsertJobs(owner, "pending")
        /\ pc' = [pc EXCEPT ![w] = "succeed"]
        /\ UNCHANGED <<stepStatus, task, crashes, calls, ready, verdict, runStatus>>
    BY <1>0, <1>8, <1>t DEF ExecCopyTable, IsCopyTable, At, GoTo, tableVars, loopVars, envVars
  <2>2. /\ owner \in [A -> Steps] /\ \A a \in A : owner[a] = s
        /\ s \in Steps /\ k \in Jobs /\ Inserted(k) /\ jobStep[k] = s
    BY <1>1, <2>1
  <2> HIDE DEF owner, A
  <2>3. /\ \A v \in Workers \ {w} : pc'[v] = pc[v]
        /\ pc'[w] = "succeed" /\ jobStatus[k] = "running"
    BY <1>t, <2>1 DEF Types, OwnInv, Owned, Busy
  <2>4. \A j \in Jobs : Inserted(j) /\ batch[j] = "none" /\ jobStep[j] = s => j = k
    <3>1. \A j \in Jobs : Inserted(j) /\ batch[j] = "none" /\ jobStep[j] = s => j \in StepJobs(s)
      BY DEF StepJobs, BatchesOf, JobsOf, Q!Exists, Inserted, BatchInv, NothingDeleted
    <3> QED
      BY <2>1, <2>2, <3>1 DEF SingleDispatch
  <2>5. OwnInv'
    BY <1>t, <2>1, <2>2, <2>3, <2>4, InsertKeepsOwned
  <2>6. ~Finishing(s) /\ DepsSucceeded(s)
    BY <2>2, <2>3 DEF StepInv, FinishedJobs, JobsInOrder
  <2>7. \A v \in Workers : pc[v] # "idle" => StepOf(v)' = StepOf(v)
    BY <2>1, <2>2, InsertsPending DEF WorkersHaveJobs, StepOf
  <2>8. \A t \in Steps : Finishing(t)' => Finishing(t)
    BY <2>1, <2>3, <2>7 DEF Finishing
  <2>9. \A t \in ready' : t \in ready /\ stepStatus'[t] = "pending" /\ \A a \in A : owner[a] # t
    BY <2>1, <2>2 DEF StepInv, ReadyIsFresh
  <2>10. StepInv'
    BY <2>1, <2>2, <2>6, <2>8, <2>9, InsertKeepsOrder
  <2> QED
    BY <2>5, <2>10
<1>9. ASSUME NEW j \in Jobs, ClaimJob(w, j) PROVE OwnInv' /\ StepInv'
  <2>1. /\ pc[w] = "idle" /\ jobStatus[j] = "pending"
        /\ jobStatus' = [jobStatus EXCEPT ![j] = "running"]
        /\ pc' = [pc EXCEPT ![w] = "start"] /\ task' = [task EXCEPT ![w] = j]
        /\ UNCHANGED <<jobStep, stepStatus, ready, verdict, runStatus>>
    BY <1>9 DEF ClaimJob, Q!Claim, At, GoTo, jobVars, tableVars, loopVars
  <2>2. /\ \A i \in Jobs : Inserted(i)' <=> Inserted(i)
        /\ \A i \in Jobs : jobStatus[i] = "succeeded" => jobStatus'[i] = "succeeded"
    BY <2>1 DEF Inserted, Types
  <2>3. \A t \in Steps : Finishing(t)' => Finishing(t)
    BY <2>1 DEF Finishing, StepOf, Types
  <2>4. StepInv'
    BY <2>1, <2>2, <2>3, OrderStays
  <2> QED
    BY <1>9, <2>4, ClaimKeepsOwned
<1> QED
  BY <1>3, <1>4, <1>5, <1>6, <1>7, <1>8, <1>9 DEF Handle

\* The rest: the supervisor requeues rows nobody owns and fails only steps that
\* have not succeeded, and what the watcher writes, it has counted.
LEMMA OthersKeepOrder ==
    ASSUME Undisturbed, DispatchInv, BatchInv, OwnInv, StepInv,
           \/ RequeueOrphans \/ FailOrphanedSteps \/ Watch \/ UNCHANGED vars
           \/ \E j \in Jobs : BackoffElapses(j) \/ LockExpires(j)
    PROVE  OwnInv' /\ StepInv'
<1> USE DEF DispatchInv
<1>1. UNCHANGED <<jobStep, batch, pc, task, held, crashes, calls, ready>>
  BY DEF RequeueOrphans, FailOrphanedSteps, Watch, WatchSelect, WatchCount, WatchWrite,
         BackoffElapses, LockExpires, Q!RequeueOrphans, Q!BackoffElapses, Q!LockExpires,
         vars, queueVars, jobVars, workerVars, loopVars, envVars
<1>2. /\ expired \in [Jobs -> BOOLEAN]
      /\ \A w \in Workers : Busy(w) =>
            /\ held[w] = task[w] /\ task[w] \in Jobs
            /\ jobStatus[task[w]] = "running" /\ ~expired[task[w]]
  BY DEF OwnInv, Owned, WorkersHaveJobs, Busy
<1>3. /\ expired' \in [Jobs -> BOOLEAN]
      /\ \A j \in Jobs : (Inserted(j)' <=> Inserted(j))
      /\ \A j \in Jobs : jobStatus[j] = "succeeded" => jobStatus'[j] = "succeeded"
      /\ \A w \in Workers : Busy(w) =>
            jobStatus'[task[w]] = jobStatus[task[w]] /\ ~expired'[task[w]]
  <2>1. CASE RequeueOrphans
    <3>1. \A j \in Jobs :
             /\ jobStatus'[j] = IF j \in Q!Orphans THEN Q!AfterFailure(j) ELSE jobStatus[j]
             /\ expired'[j] = IF j \in Q!Orphans THEN FALSE ELSE expired[j]
      BY <2>1 DEF RequeueOrphans, Q!RequeueOrphans
    <3>2. expired' \in [Jobs -> BOOLEAN]
      BY <1>2, <2>1 DEF RequeueOrphans, Q!RequeueOrphans
    <3>3. \A j \in Q!Orphans : jobStatus[j] = "running" /\ expired[j]
      BY DEF Q!Orphans
    <3>4. \A j \in Jobs : Q!AfterFailure(j) \in {"dead", "pending"}
      BY DEF Q!AfterFailure
    <3> QED
      BY <1>2, <3>1, <3>2, <3>3, <3>4 DEF Inserted
  <2>2. ASSUME NEW j \in Jobs, LockExpires(j)
        PROVE  /\ jobStatus' = jobStatus /\ expired' \in [Jobs -> BOOLEAN]
               /\ \A w \in Workers : Busy(w) => ~expired'[task[w]]
    <3>1. /\ jobStatus' = jobStatus /\ expired' = [expired EXCEPT ![j] = TRUE]
          /\ \A w \in Workers : held[w] # j
      BY <2>2 DEF LockExpires, Q!LockExpires, Q!Holders, Undisturbed
    <3> QED
      BY <1>2, <3>1
  <2>3. CASE FailOrphanedSteps \/ Watch \/ UNCHANGED vars \/ \E j \in Jobs : BackoffElapses(j)
    <3>1. UNCHANGED <<jobStatus, expired>>
      BY <2>3 DEF FailOrphanedSteps, Watch, WatchSelect, WatchCount, WatchWrite,
                  BackoffElapses, Q!BackoffElapses, vars, queueVars
    <3> QED
      BY <1>2, <3>1 DEF Inserted
  <2> QED
    BY <2>1, <2>2, <2>3 DEF Inserted
<1>4. OwnInv'
  <2>1. \A w \in Workers : (Busy(w)' <=> Busy(w)) /\ (pc[w] # "idle" => task[w] \in Jobs)
    BY <1>1 DEF Busy, WorkersHaveJobs
  <2> QED
    BY <1>1, <1>3, <2>1, OwnedStays
<1>5. \A s \in Steps : \/ stepStatus'[s] = stepStatus[s]
                       \/ /\ stepStatus[s] # "succeeded" /\ stepStatus'[s] = "failed"
                          /\ \E j \in Jobs : Inserted(j) /\ jobStep[j] = s
  <2>1. CASE FailOrphanedSteps
    BY <2>1 DEF FailOrphanedSteps, Condemned, HasStatus, StepJobs, JobsOf, Q!Exists, Inserted
  <2>2. CASE ~FailOrphanedSteps
    BY <2>2 DEF RequeueOrphans, Watch, WatchSelect, WatchCount, WatchWrite, BackoffElapses,
                LockExpires, tableVars, vars
  <2> QED
    BY <2>1, <2>2
<1>6. \A s \in Steps : Finishing(s)' => Finishing(s)
  BY <1>1, <1>5 DEF Finishing, StepOf
<1>7. \A r \in Runs : runStatus'[r] = "succeeded" \/ <<r, "succeeded">> \in verdict' =>
              \/ runStatus[r] = "succeeded" \/ <<r, "succeeded">> \in verdict
              \/ AllSucceeded(r)
  <2>1. ASSUME NEW r \in Runs, WatchCount(r), NEW q \in Runs, <<q, "succeeded">> \in verdict'
        PROVE  AllSucceeded(q)
    BY <2>1 DEF WatchCount
  <2>2. CASE WatchWrite
    <3>1. PICK v \in verdict : runStatus' = [runStatus EXCEPT ![v[1]] = v[2]]
      BY <2>2 DEF WatchWrite
    <3>2. v = <<v[1], v[2]>> /\ v[1] \in Runs /\ verdict' = {}
      BY <2>2 DEF Types, WatchWrite
    <3> QED
      BY <3>1, <3>2 DEF Types
  <2>3. ASSUME NEW r \in Runs, WatchCount(r) PROVE runStatus' = runStatus
    BY <2>3 DEF WatchCount, tableVars
  <2>4. CASE ~WatchWrite /\ \A r \in Runs : ~WatchCount(r)
    BY <2>4 DEF RequeueOrphans, FailOrphanedSteps, Watch, WatchSelect, BackoffElapses,
                LockExpires, tableVars, loopVars, vars
  <2> QED
    BY <2>1, <2>2, <2>3, <2>4
<1>8. StepInv'
  BY <1>1, <1>3, <1>5, <1>6, <1>7, OrderStays
<1> QED
  BY <1>4, <1>8

\* The invariants of order hold in every reachable state of an undisturbed run.
LEMMA OrderInvariant ==
    ASSUME Undisturbed PROVE Spec => [](DispatchInv /\ BatchInv /\ OwnInv /\ StepInv)
<1>1. Init => OwnInv /\ StepInv
  BY DEF Init, Q!Init, OwnInv, Owned, ReportsAreTrue, Busy, Inserted, StepInv, FinishedJobs,
         Finishing, ReadyIsFresh, JobsInOrder, RunsComplete
<1>2. DispatchInv /\ BatchInv /\ OwnInv /\ StepInv /\ [Next]_vars => OwnInv' /\ StepInv'
  <2> SUFFICES ASSUME DispatchInv, BatchInv, OwnInv, StepInv, [Next]_vars
               PROVE  OwnInv' /\ StepInv'
    OBVIOUS
  <2>1. ~Crash
    BY DEF Crash, OwnInv, Undisturbed
  <2>2. ~Api
    BY DEF Api, OwnInv, Undisturbed, CancelRun, RetryJobs, PlayStep, PlayLevel, PlaySteps,
           ReplayStep, ReplayLevel, ReplaySteps, Called
  <2>3. DispatchInv'
    BY NextDispatchInv
  <2> QED
    BY <2>1, <2>2, <2>3, StartRunKeepsOrder, DispatchKeepsOrder, WorkerKeepsOrder,
       OthersKeepOrder
       DEF Next
<1>3. NoReplay
  BY DEF Undisturbed, NoReplay
<1> QED
  BY <1>1, <1>2, <1>3, BatchInvariant, PTL DEF Spec

\* The planner's levels are respected: what the dispatcher read of the
\* dependencies of a step is still true when, later, a worker works for it.
\* For every plan, any number of workers, failing handlers and lost roll-ups.
THEOREM DependenciesFirst ==
    ASSUME Undisturbed PROVE Spec => []DependencyOrder
<1>1. DispatchInv /\ StepInv => DependencyOrder
  BY DEF DispatchInv, WorkersHaveJobs, StepInv, JobsInOrder, Inserted, StepOf, DependencyOrder
<1> QED
  BY <1>1, OrderInvariant, PTL

\* The watcher writes 'succeeded' by id alone, one statement after it counted:
\* the steps it counted are succeeded still, then and ever after.
THEOREM SucceededRunsStayComplete ==
    ASSUME Undisturbed PROVE Spec => []SucceededRunIsComplete
<1>1. StepInv => SucceededRunIsComplete
  BY DEF StepInv, RunsComplete, SucceededRunIsComplete
<1> QED
  BY <1>1, OrderInvariant, PTL


-----------------------------------------------------------------------------
(* What a user sees: the refinement of MigrationRun.                       *)

\* A step that is not kept waiting.
Movable(s) == stepStatus[s] \in {"pending", "running"} /\ DepsSucceeded(s)

\* A run that has failed, or that the watcher is about to fail, stays as it is:
\* a failed step has a dead job, so that it never succeeds after all, and the
\* steps that wait for it wait for ever.
FailedHasDead ==
    \A s \in Steps : stepStatus[s] = "failed" =>
        \E j \in Jobs : jobStatus[j] = "dead" /\ jobStep[j] = s

Stuck(r) ==
    /\ \E s \in StepsOf(r) : stepStatus[s] = "failed"
    /\ \A s \in StepsOf(r) : ~Movable(s)

FailedIsStuck ==
    \A r \in Runs : runStatus[r] = "failed" \/ <<r, "failed">> \in verdict => Stuck(r)

\* Nobody else ends a run between the watcher's queries and its update.
WatchedIsRunning ==
    /\ watched \subseteq Runs
    /\ \A r \in watched : runStatus[r] = "running"
    /\ \A r \in Runs, v \in {"succeeded", "failed"} :
          <<r, v>> \in verdict => runStatus[r] = "running" /\ r \notin watched

EndInv ==
    /\ \A r \in Runs : runStatus[r] \in {"none", "running", "succeeded", "failed"}
    /\ \A s \in Steps : runStatus[RunOf[s]] # "none" => stepStatus[s] # "none"
    /\ FailedHasDead /\ FailedIsStuck /\ WatchedIsRunning

\* The run of such a step is running.
LEMMA MovableInProgress ==
    ASSUME DispatchInv, StepInv, EndInv, NEW s \in Steps, Movable(s)
    PROVE  R!InProgress(s)
<1>1. RunOf[s] \in Runs /\ s \in StepsOf(RunOf[s])
  BY StepAssumption DEF StepsOf
<1>2. runStatus[RunOf[s]] # "none"
  BY DEF DispatchInv, StepsHaveRuns, Movable
<1>3. runStatus[RunOf[s]] # "failed"
  BY <1>1 DEF EndInv, FailedIsStuck, Stuck
<1>4. runStatus[RunOf[s]] # "succeeded"
  BY <1>1 DEF StepInv, RunsComplete, AllSucceeded, Movable
<1> QED
  BY <1>1, <1>2, <1>3, <1>4 DEF EndInv, Movable, DepsSucceeded, R!InProgress

\* A step that has a job is waiting for nothing.
LEMMA StepWithJob ==
    ASSUME DispatchInv, StepInv, EndInv, NEW j \in Jobs, Inserted(j),
           stepStatus[jobStep[j]] \notin {"succeeded", "failed"}
    PROVE  jobStep[j] \in Steps /\ R!InProgress(jobStep[j])
<1>1. jobStep[j] \in Steps /\ runStatus[RunOf[jobStep[j]]] # "none" /\ DepsSucceeded(jobStep[j])
  BY DEF DispatchInv, JobsHaveRuns, StepInv, JobsInOrder, Inserted
<1>2. Movable(jobStep[j])
  BY <1>1 DEF EndInv, Movable, DispatchInv, Types, StepStatuses
<1> QED
  BY <1>1, <1>2, MovableInProgress

StepsMove ==
    \/ UNCHANGED <<runStatus, stepStatus>>
    \/ \E s \in Steps : R!Begin(s) \/ R!Finish(s)
    \/ \E S \in SUBSET Steps :
          /\ R!Fail(S)
          /\ \A s \in S : \E j \in Jobs : jobStatus[j] = "dead" /\ jobStep[j] = s

\* What workers and supervisor write into steps, from any status, is a move of
\* a step whose turn it is.
LEMMA WritesAreMoves ==
    ASSUME DispatchInv, StepInv, EndInv,
           (\E w \in Workers : Handle(w)) \/ FailOrphanedSteps
    PROVE  StepsMove
<1>0. stepStatus \in [Steps -> StepStatuses]
  BY DEF DispatchInv, Types
<1>1. ASSUME NEW w \in Workers, pc[w] # "idle"
      PROVE  /\ task[w] \in Jobs /\ Inserted(task[w]) /\ StepOf(w) = jobStep[task[w]]
             /\ StepOf(w) \in Steps
  BY <1>1 DEF DispatchInv, WorkersHaveJobs, JobsHaveRuns, Inserted, StepOf
<1>2. ASSUME NEW w \in Workers, StartStep(w) PROVE StepsMove
  <2>1. /\ pc[w] = "start" /\ UNCHANGED runStatus
        /\ stepStatus' = [stepStatus EXCEPT ![StepOf(w)] = IF @ = "pending" THEN "running" ELSE @]
    BY <1>2 DEF StartStep, At
  <2>2. CASE stepStatus[StepOf(w)] = "pending"
    <3>1. StepOf(w) \in Steps /\ R!InProgress(StepOf(w))
      BY <1>1, <2>1, <2>2, StepWithJob
    <3>2. R!Begin(StepOf(w))
      BY <2>1, <2>2, <3>1 DEF R!Begin
    <3> QED
      BY <3>1, <3>2 DEF StepsMove
  <2>3. CASE stepStatus[StepOf(w)] # "pending"
    BY <1>0, <2>1, <2>3 DEF StepsMove
  <2> QED
    BY <2>2, <2>3
<1>3. ASSUME NEW w \in Workers, FinishStep(w) PROVE StepsMove
  <2>1. /\ pc[w] = "finish" /\ UNCHANGED runStatus
        /\ stepStatus' = [stepStatus EXCEPT ![StepOf(w)] = "succeeded"]
    BY <1>3 DEF FinishStep, At
  <2>2. StepOf(w) \in Steps /\ Finishing(StepOf(w))
    BY <1>1, <2>1 DEF Finishing
  <2>3. stepStatus[StepOf(w)] # "failed"
    BY <2>2 DEF StepInv, FinishedJobs, EndInv, FailedHasDead, Inserted
  <2>4. CASE stepStatus[StepOf(w)] = "succeeded"
    BY <1>0, <2>1, <2>4 DEF StepsMove
  <2>5. CASE stepStatus[StepOf(w)] # "succeeded"
    <3>1. R!InProgress(StepOf(w))
      BY <1>1, <2>1, <2>3, <2>5, StepWithJob
    <3>2. R!Finish(StepOf(w))
      BY <2>1, <3>1 DEF R!Finish
    <3> QED
      BY <2>2, <3>2 DEF StepsMove
  <2> QED
    BY <2>4, <2>5
<1>4. ASSUME NEW w \in Workers, FailStep(w) PROVE StepsMove
  <2>1. /\ pc[w] = "failStep" /\ UNCHANGED runStatus
        /\ stepStatus' = [stepStatus EXCEPT ![StepOf(w)] =
              IF HasStatus(JobsOf({StepOf(w)}), {"dead"}) # {} THEN "failed" ELSE @]
    BY <1>4 DEF FailStep, At
  <2>2. CASE HasStatus(JobsOf({StepOf(w)}), {"dead"}) = {}
    BY <1>0, <2>1, <2>2 DEF StepsMove
  <2>3. CASE HasStatus(JobsOf({StepOf(w)}), {"dead"}) # {}
    <3>1. PICK j \in Jobs : jobStatus[j] = "dead" /\ jobStep[j] = StepOf(w)
      BY <2>3 DEF HasStatus, JobsOf
    <3>2. StepOf(w) \in Steps /\ stepStatus[StepOf(w)] # "succeeded"
      BY <1>1, <2>1, <3>1 DEF StepInv, FinishedJobs, Finishing, Inserted
    <3>3. CASE stepStatus[StepOf(w)] = "failed"
      BY <1>0, <2>1, <2>3, <3>3 DEF StepsMove
    <3>4. CASE stepStatus[StepOf(w)] # "failed"
      <4>1. R!InProgress(StepOf(w))
        BY <1>1, <2>1, <3>2, <3>4, StepWithJob
      <4>2. R!Fail({StepOf(w)})
        BY <1>0, <2>1, <2>3, <3>2, <4>1 DEF R!Fail
      <4>3. {StepOf(w)} \in SUBSET Steps
        BY <3>2
      <4> QED
        BY <3>1, <4>2, <4>3 DEF StepsMove
    <3> QED
      BY <3>3, <3>4
  <2> QED
    BY <2>2, <2>3
<1>5. CASE FailOrphanedSteps
  <2>1. /\ stepStatus' = [s \in Steps |-> IF s \in Condemned THEN "failed" ELSE stepStatus[s]]
        /\ UNCHANGED runStatus
    BY <1>5 DEF FailOrphanedSteps
  <2>2. ASSUME NEW s \in Condemned
        PROVE  /\ s \in Steps /\ R!InProgress(s)
               /\ \E j \in Jobs : jobStatus[j] = "dead" /\ jobStep[j] = s
    <3>1. PICK j \in Jobs : jobStatus[j] = "dead" /\ jobStep[j] = s
      BY DEF Condemned, HasStatus, StepJobs, JobsOf
    <3>2. s \in Steps /\ stepStatus[s] \notin {"succeeded", "failed"} /\ Inserted(j)
      BY <3>1 DEF Condemned, Inserted
    <3> QED
      BY <3>1, <3>2, StepWithJob
  <2>3. R!Fail(Condemned) /\ Condemned \in SUBSET Steps
    BY <2>1, <2>2 DEF R!Fail
  <2> QED
    BY <2>2, <2>3 DEF StepsMove
<1>6. ASSUME NEW w \in Workers, Handle(w), ~StartStep(w), ~FinishStep(w), ~FailStep(w)
      PROVE  StepsMove
  BY <1>6 DEF Handle, ExecHandler, ExecCopyTable, ExecError, BatchDone, SucceedJob, HasBatches,
              CountUnfinished, FailJob, LoseStatement, tableVars, StepsMove
<1> QED
  BY <1>2, <1>3, <1>4, <1>5, <1>6

\* Nobody revives a dead job: an undisturbed worker reports rows that are
\* running, and nobody resets a row.
LEMMA DeadStays ==
    ASSUME Undisturbed, DispatchInv, OwnInv, [Next]_vars, ~Api, ~Crash,
           NEW j \in Jobs, jobStatus[j] = "dead"
    PROVE  jobStatus'[j] = "dead" /\ jobStep'[j] = jobStep[j]
<1> USE DEF DispatchInv
<1>0. jobStatus \in [Jobs -> Q!Statuses]
  BY DEF Types
<1>1. ASSUME NEW S, NEW owner \in [S -> Steps], NEW new_ \in {"none", "pending"},
             InsertJobs(owner, new_)
      PROVE  jobStatus'[j] = "dead" /\ jobStep'[j] = jobStep[j]
  BY <1>1, InsertsPending
<1>2. ASSUME NEW w \in Workers, SucceedJob(w) \/ FailJob(w)
      PROVE  jobStatus'[j] = "dead" /\ jobStep'[j] = jobStep[j]
  <2>1. Busy(w) /\ held[w] = task[w] /\ jobStatus[held[w]] = "running"
    BY <1>2 DEF SucceedJob, FailJob, At, OwnInv, Owned, Busy
  <2> QED
    BY <1>0, <1>2, <2>1 DEF SucceedJob, FailJob, Q!Succeed, Q!Fail, jobVars
<1>3. ASSUME NEW w \in Workers, NEW k \in Jobs, ClaimJob(w, k)
      PROVE  jobStatus'[j] = "dead" /\ jobStep'[j] = jobStep[j]
  BY <1>0, <1>3 DEF ClaimJob, Q!Claim, jobVars
<1>4. CASE RequeueOrphans
  BY <1>4 DEF RequeueOrphans, Q!RequeueOrphans, Q!Orphans, jobVars
<1>5. ASSUME NEW w \in Workers, ExecCopyTable(w)
      PROVE  jobStatus'[j] = "dead" /\ jobStep'[j] = jobStep[j]
  <2>1. CASE BatchesOf(StepOf(w)) = {}
    <3>1. InsertJobs([i \in 1..NBatches[StepOf(w)] |-> StepOf(w)], "pending")
      BY <1>5, <2>1 DEF ExecCopyTable
    <3>2. StepOf(w) \in Steps
      BY <1>5 DEF ExecCopyTable, At, WorkersHaveJobs, JobsHaveRuns, StepOf
    <3>3. [i \in 1..NBatches[StepOf(w)] |-> StepOf(w)] \in [1..NBatches[StepOf(w)] -> Steps]
      BY <3>2
    <3> QED
      BY <1>1, <3>1, <3>3
  <2>2. CASE BatchesOf(StepOf(w)) # {}
    BY <1>5, <2>2 DEF ExecCopyTable, queueVars, jobVars
  <2> QED
    BY <2>1, <2>2
<1>6. ASSUME NEW r \in Runs, NEW mode \in Modes, StartRun(r, mode)
      PROVE  jobStatus'[j] = "dead" /\ jobStep'[j] = jobStep[j]
  <2> DEFINE S == {s \in StepsOf(r) : mode = "auto" /\ Deps[s] = {}}
  <2>1. InsertJobs([s \in S |-> s], "none")
    BY <1>6 DEF StartRun, InsertStepJobs
  <2>2. [s \in S |-> s] \in [S -> Steps]
    BY DEF StepsOf
  <2> QED
    BY <1>1, <2>1, <2>2
<1>7. ASSUME NEW s \in Steps, DispatchEnqueue(s)
      PROVE  jobStatus'[j] = "dead" /\ jobStep'[j] = jobStep[j]
  <2>1. InsertJobs([t \in {s} |-> t], "none")
    BY <1>7 DEF DispatchEnqueue, InsertStepJobs
  <2>2. [t \in {s} |-> t] \in [{s} -> Steps]
    OBVIOUS
  <2> QED
    BY <1>1, <2>1, <2>2
<1>8. ASSUME NEW w \in Workers, LoseStatement(w)
      PROVE  jobStatus'[j] = "dead" /\ jobStep'[j] = jobStep[j]
  BY <1>8 DEF LoseStatement, Q!Abandon, Q!rows, queueVars, jobVars
<1>9. ASSUME NEW w \in Workers,
             \/ StartStep(w) \/ ExecHandler(w) \/ ExecError(w) \/ BatchDone(w) \/ HasBatches(w)
             \/ CountUnfinished(w) \/ FinishStep(w) \/ FailStep(w)
      PROVE  jobStatus'[j] = "dead" /\ jobStep'[j] = jobStep[j]
  BY <1>9 DEF StartStep, ExecHandler, ExecError, BatchDone, HasBatches, CountUnfinished, FinishStep,
              FailStep, queueVars, jobVars
<1>10. CASE FailOrphanedSteps \/ DispatchSelect \/ Watch \/ UNCHANGED vars
  BY <1>10 DEF FailOrphanedSteps, DispatchSelect, Watch, WatchSelect, WatchCount, WatchWrite, vars,
               queueVars, jobVars
<1>11. ASSUME NEW k \in Jobs, BackoffElapses(k) \/ LockExpires(k)
       PROVE  jobStatus'[j] = "dead" /\ jobStep'[j] = jobStep[j]
  BY <1>11 DEF BackoffElapses, Q!BackoffElapses, LockExpires, Q!LockExpires, jobVars
<1> QED
  BY <1>2, <1>3, <1>4, <1>5, <1>6, <1>7, <1>8, <1>9, <1>10, <1>11 DEF Next, Handle, Dispatch

\* A move of steps leaves failed runs alone: none of their steps can move, and
\* none of them succeeds.
LEMMA MovesKeepEnd ==
    ASSUME DispatchInv, EndInv, StepsMove, UNCHANGED <<watched, verdict>>,
           \A j \in Jobs : jobStatus[j] = "dead" => jobStatus'[j] = "dead" /\ jobStep'[j] = jobStep[j]
    PROVE  EndInv'
<1>0. runStatus' = runStatus /\ stepStatus \in [Steps -> StepStatuses]
  BY DEF StepsMove, R!Begin, R!Finish, R!Fail, DispatchInv, Types
<1>1. ASSUME NEW s \in Steps, stepStatus'[s] # stepStatus[s]
      PROVE  /\ Movable(s) /\ stepStatus'[s] \in {"running", "succeeded", "failed"}
             /\ stepStatus'[s] = "failed" => \E j \in Jobs : jobStatus[j] = "dead" /\ jobStep[j] = s
  <2>1. CASE UNCHANGED <<runStatus, stepStatus>>
    BY <1>1, <2>1
  <2>2. ASSUME NEW t \in Steps, R!Begin(t) \/ R!Finish(t)
        PROVE  t = s /\ Movable(s) /\ stepStatus'[s] \in {"running", "succeeded"}
    <3>1. /\ R!InProgress(t)
          /\ \/ stepStatus' = [stepStatus EXCEPT ![t] = "running"]
             \/ stepStatus' = [stepStatus EXCEPT ![t] = "succeeded"]
      BY <2>2 DEF R!Begin, R!Finish
    <3>2. t = s /\ stepStatus'[s] \in {"running", "succeeded"}
      BY <1>0, <1>1, <3>1
    <3> QED
      BY <3>1, <3>2 DEF R!InProgress, Movable, DepsSucceeded
  <2>3. ASSUME NEW S \in SUBSET Steps, R!Fail(S),
               \A t \in S : \E j \in Jobs : jobStatus[j] = "dead" /\ jobStep[j] = t
        PROVE  /\ Movable(s) /\ stepStatus'[s] = "failed"
               /\ \E j \in Jobs : jobStatus[j] = "dead" /\ jobStep[j] = s
    <3>1. s \in S /\ stepStatus'[s] = "failed" /\ R!InProgress(s)
      BY <1>1, <2>3 DEF R!Fail
    <3> QED
      BY <2>3, <3>1 DEF R!InProgress, Movable, DepsSucceeded
  <2> QED
    BY <2>1, <2>2, <2>3 DEF StepsMove
<1>2. FailedHasDead'
  <2> SUFFICES ASSUME NEW s \in Steps, stepStatus'[s] = "failed"
               PROVE  \E j \in Jobs : jobStatus'[j] = "dead" /\ jobStep'[j] = s
    BY DEF FailedHasDead
  <2>1. \E j \in Jobs : jobStatus[j] = "dead" /\ jobStep[j] = s
    BY <1>1 DEF EndInv, FailedHasDead
  <2> QED
    BY <2>1
<1>3. ASSUME NEW r \in Runs, Stuck(r) PROVE Stuck(r)'
  <2>1. \A s \in StepsOf(r) : s \in Steps /\ stepStatus'[s] = stepStatus[s]
    BY <1>1, <1>3 DEF Stuck, StepsOf
  <2>2. \A s \in StepsOf(r) : \A d \in Deps[s] : d \in StepsOf(r)
    BY StepAssumption DEF StepsOf
  <2>3. \A s \in StepsOf(r) : Movable(s)' => Movable(s)
    BY <2>1, <2>2 DEF Movable, DepsSucceeded
  <2> QED
    BY <1>3, <2>1, <2>3 DEF Stuck, StepsOf
<1>4. FailedIsStuck'
  BY <1>0, <1>3 DEF EndInv, FailedIsStuck
<1>5. \A s \in Steps : runStatus'[RunOf[s]] # "none" => stepStatus'[s] # "none"
  BY <1>0, <1>1 DEF EndInv
<1> QED
  BY <1>0, <1>2, <1>4, <1>5 DEF EndInv, WatchedIsRunning

\* startRun and the watcher: the two that write runs.
LEMMA RunsMove ==
    ASSUME DispatchInv, StepInv, EndInv,
           \/ \E r \in Runs, mode \in Modes : StartRun(r, mode)
           \/ Watch,
           \A j \in Jobs : jobStatus[j] = "dead" => jobStatus'[j] = "dead" /\ jobStep'[j] = jobStep[j]
    PROVE  /\ EndInv'
           /\ (\E r \in Runs : R!Start(r) \/ R!End(r)) \/ UNCHANGED <<runStatus, stepStatus>>
<1>0. /\ runStatus \in [Runs -> RunStatuses] /\ stepStatus \in [Steps -> StepStatuses]
      /\ verdict \in SUBSET (Runs \X {"succeeded", "failed"})
  BY DEF DispatchInv, Types
<1>d. ASSUME \A s \in Steps : stepStatus'[s] = "failed" => stepStatus[s] = "failed"
      PROVE  FailedHasDead'
  BY <1>d DEF EndInv, FailedHasDead
<1>1. ASSUME NEW r \in Runs, NEW mode \in Modes, StartRun(r, mode)
      PROVE  EndInv' /\ R!Start(r)
  <2>1. /\ runStatus[r] = "none" /\ ~OtherActive(r)
        /\ runStatus' = [runStatus EXCEPT ![r] = "running"]
        /\ stepStatus' = [s \in Steps |-> IF RunOf[s] = r THEN "pending" ELSE stepStatus[s]]
        /\ UNCHANGED <<watched, verdict>>
    BY <1>1 DEF StartRun, loopVars
  <2>2. R!Start(r)
    BY <2>1 DEF OtherActive, R!Start
  <2>3. \A q \in Runs \ {r} : Stuck(q) => Stuck(q)'
    <3> SUFFICES ASSUME NEW q \in Runs \ {r}, Stuck(q) PROVE Stuck(q)'
      OBVIOUS
    <3>1. \A s \in StepsOf(q) : s \in Steps /\ stepStatus'[s] = stepStatus[s]
      BY <2>1 DEF StepsOf
    <3>2. \A s \in StepsOf(q) : \A d \in Deps[s] : d \in StepsOf(q)
      BY StepAssumption DEF StepsOf
    <3> QED
      BY <3>1, <3>2 DEF Stuck, Movable, DepsSucceeded, StepsOf
  <2>4. FailedIsStuck'
    BY <1>0, <2>1, <2>3 DEF EndInv, FailedIsStuck, WatchedIsRunning
  <2>5. WatchedIsRunning'
    BY <1>0, <2>1 DEF EndInv, WatchedIsRunning
  <2>6. FailedHasDead'
    BY <1>d, <2>1
  <2>7. /\ \A q \in Runs : runStatus'[q] \in {"none", "running", "succeeded", "failed"}
        /\ \A s \in Steps : runStatus'[RunOf[s]] # "none" => stepStatus'[s] # "none"
    BY <1>0, <2>1, StepAssumption DEF EndInv
  <2> QED
    BY <2>2, <2>4, <2>5, <2>6, <2>7 DEF EndInv
<1>s. ASSUME UNCHANGED <<runStatus, stepStatus>>, WatchedIsRunning',
             \A r \in Runs : <<r, "failed">> \in verdict' => Stuck(r)
      PROVE  EndInv'
  <2>1. \A r \in Runs : Stuck(r)' <=> Stuck(r)
    BY <1>s DEF Stuck, Movable, DepsSucceeded, StepsOf
  <2>2. FailedIsStuck'
    BY <1>s, <2>1 DEF EndInv, FailedIsStuck
  <2>3. FailedHasDead'
    BY <1>d, <1>s
  <2> QED
    BY <1>s, <2>2, <2>3 DEF EndInv
<1>2. CASE WatchSelect
  <2>1. /\ UNCHANGED <<runStatus, stepStatus, verdict>> /\ verdict = {}
        /\ watched' = {r \in Runs : runStatus[r] = "running"}
    BY <1>2 DEF WatchSelect, tableVars
  <2>2. WatchedIsRunning'
    BY <2>1 DEF WatchedIsRunning
  <2> QED
    BY <1>s, <2>1, <2>2
<1>3. ASSUME NEW r \in Runs, WatchCount(r) PROVE EndInv' /\ UNCHANGED <<runStatus, stepStatus>>
  <2>1. /\ r \in watched /\ verdict = {} /\ watched' = watched \ {r}
        /\ UNCHANGED <<runStatus, stepStatus>>
        /\ verdict' = IF AllSucceeded(r) /\ StepsOf(r) # {} THEN {<<r, "succeeded">>}
                      ELSE IF NoProgress(r) THEN {<<r, "failed">>} ELSE {}
    BY <1>3 DEF WatchCount, tableVars
  <2>2. WatchedIsRunning'
    BY <2>1 DEF EndInv, WatchedIsRunning
  <2>3. NoProgress(r) => Stuck(r)
    BY DEF NoProgress, Stuck, Movable
  <2>4. \A q \in Runs : <<q, "failed">> \in verdict' => q = r /\ NoProgress(r)
    BY <2>1
  <2> QED
    BY <1>s, <2>1, <2>2, <2>3, <2>4
<1>4. CASE WatchWrite
  <2>1. PICK u \in verdict : runStatus' = [runStatus EXCEPT ![u[1]] = u[2]]
    BY <1>4 DEF WatchWrite
  <2>2. PICK r \in Runs, v \in {"succeeded", "failed"} : u = <<r, v>>
    BY <1>0, <2>1
  <2>3. /\ runStatus' = [runStatus EXCEPT ![r] = v] /\ <<r, v>> \in verdict
        /\ verdict' = {} /\ UNCHANGED <<stepStatus, watched>>
    BY <1>4, <2>1, <2>2 DEF WatchWrite
  <2>4. runStatus[r] = "running" /\ r \notin watched
    BY <2>3 DEF EndInv, WatchedIsRunning
  <2>5. v = "failed" => Stuck(r)
    BY <2>3 DEF EndInv, FailedIsStuck
  <2>6. v = "succeeded" => AllSucceeded(r)
    BY <2>3 DEF StepInv, RunsComplete
  <2>7. v \in R!Outcome(r)
    <3>1. CASE v = "succeeded"
      BY <2>6, <3>1 DEF AllSucceeded, StepsOf, R!Outcome
    <3>2. CASE v = "failed"
      BY <2>5, <3>2 DEF Stuck, Movable, DepsSucceeded, StepsOf, R!Outcome, R!InProgress
    <3> QED
      BY <3>1, <3>2
  <2>8. R!End(r)
    BY <2>3, <2>4, <2>7 DEF R!End
  <2>9. \A q \in Runs : Stuck(q)' <=> Stuck(q)
    BY <2>3 DEF Stuck, Movable, DepsSucceeded, StepsOf
  <2>10. FailedIsStuck'
    BY <1>0, <2>3, <2>5, <2>9 DEF EndInv, FailedIsStuck
  <2>11. WatchedIsRunning'
    BY <1>0, <2>3, <2>4 DEF EndInv, WatchedIsRunning
  <2>12. FailedHasDead'
    BY <1>d, <2>3
  <2>13. /\ \A q \in Runs : runStatus'[q] \in {"none", "running", "succeeded", "failed"}
         /\ \A s \in Steps : runStatus'[RunOf[s]] # "none" => stepStatus'[s] # "none"
    BY <1>0, <2>3, <2>4, StepAssumption DEF EndInv
  <2> QED
    BY <2>8, <2>10, <2>11, <2>12, <2>13 DEF EndInv
<1> QED
  BY <1>1, <1>2, <1>3, <1>4 DEF Watch

\* Every step of an undisturbed run is one of MigrationRun, or none.
LEMMA UndisturbedRefines ==
    ASSUME Undisturbed, DispatchInv, BatchInv, OwnInv, StepInv, EndInv, [Next]_vars
    PROVE  EndInv' /\ (R!Next \/ UNCHANGED R!vars)
<1>1. ~Crash /\ ~Api
  BY DEF Crash, Api, OwnInv, Undisturbed, CancelRun, RetryJobs, PlayStep, PlayLevel, PlaySteps,
         ReplayStep, ReplayLevel, ReplaySteps, Called
<1>2. \A j \in Jobs : jobStatus[j] = "dead" => jobStatus'[j] = "dead" /\ jobStep'[j] = jobStep[j]
  BY <1>1, DeadStays
<1>3. ASSUME StepsMove, UNCHANGED <<watched, verdict>> PROVE EndInv' /\ (R!Next \/ UNCHANGED R!vars)
  BY <1>2, <1>3, MovesKeepEnd DEF StepsMove, R!Next, R!vars
<1>4. CASE (\E r \in Runs, mode \in Modes : StartRun(r, mode)) \/ Watch
  BY <1>2, <1>4, RunsMove DEF R!Next, R!vars
<1>5. CASE (\E w \in Workers : Handle(w)) \/ FailOrphanedSteps
  <2>1. UNCHANGED <<watched, verdict>>
    BY <1>5 DEF Handle, StartStep, ExecHandler, ExecCopyTable, ExecError, BatchDone, SucceedJob,
                HasBatches, CountUnfinished, FinishStep, FailJob, FailStep, LoseStatement,
                FailOrphanedSteps, loopVars
  <2> QED
    BY <1>3, <1>5, <2>1, WritesAreMoves
<1>6. CASE \/ \E w \in Workers, j \in Jobs : ClaimJob(w, j)
           \/ RequeueOrphans \/ Dispatch \/ UNCHANGED vars
           \/ \E j \in Jobs : BackoffElapses(j) \/ LockExpires(j)
  <2>1. UNCHANGED <<watched, verdict, runStatus, stepStatus>>
    BY <1>6 DEF ClaimJob, RequeueOrphans, Dispatch, DispatchSelect, DispatchEnqueue, BackoffElapses,
                LockExpires, vars, loopVars, tableVars
  <2> QED
    BY <1>3, <2>1 DEF StepsMove
<1> QED
  BY <1>1, <1>4, <1>5, <1>6 DEF Next

\* The invariant of the end holds in every reachable state of undisturbed runs.
LEMMA EndInvariant == ASSUME Undisturbed PROVE Spec => []EndInv
<1>1. Init => EndInv
  <2> SUFFICES ASSUME Init PROVE EndInv
    OBVIOUS
  <2>1. /\ \A r \in Runs : runStatus[r] = "none" /\ \A s \in Steps : stepStatus[s] = "none"
        /\ watched = {} /\ verdict = {}
    BY DEF Init
  <2> QED
    BY <2>1, StepAssumption DEF EndInv, FailedHasDead, FailedIsStuck, WatchedIsRunning
<1>2. EndInv /\ DispatchInv /\ BatchInv /\ OwnInv /\ StepInv /\ [Next]_vars => EndInv'
  BY UndisturbedRefines
<1> QED
  BY <1>1, <1>2, OrderInvariant, PTL DEF Spec

\* What a user sees of an undisturbed run is MigrationRun, for every plan, any
\* number of workers and batches, failing handlers and lost roll-ups: a step
\* moves in its turn and ends once, and a run that has ended, well or badly,
\* stays as it is, with all of its steps.
THEOREM RefinesMigrationRun ==
    ASSUME Undisturbed PROVE Spec => RunSpec
<1>1. Init => R!Init
  BY DEF Init, R!Init
<1>2. EndInv /\ DispatchInv /\ BatchInv /\ OwnInv /\ StepInv /\ [Next]_vars => [R!Next]_(R!vars)
  BY UndisturbedRefines
<1> QED
  BY <1>1, <1>2, OrderInvariant, EndInvariant, PTL DEF Spec, RunSpec, R!Spec

\* Runs that have ended.
Ended == {"succeeded", "failed"}

\* The end of a run is final, for the run and for each of its steps: the
\* watcher reads the steps in one statement and writes the run in another, and
\* nothing it has not seen is on its way.
THEOREM EndIsFinal ==
    ASSUME Undisturbed
    PROVE  Spec => [][\A r \in Runs : runStatus[r] \in Ended =>
                        /\ runStatus'[r] = runStatus[r]
                        /\ \A s \in StepsOf(r) : stepStatus'[s] = stepStatus[s]]_vars
<1> DEFINE Final == \A r \in Runs : runStatus[r] \in Ended =>
                        /\ runStatus'[r] = runStatus[r]
                        /\ \A s \in StepsOf(r) : stepStatus'[s] = stepStatus[s]
<1>1. ASSUME DispatchInv, R!Next \/ UNCHANGED R!vars PROVE Final
  <2> SUFFICES ASSUME NEW r \in Runs, runStatus[r] \in Ended
               PROVE  /\ runStatus'[r] = runStatus[r]
                      /\ \A s \in StepsOf(r) : stepStatus'[s] = stepStatus[s]
    OBVIOUS
  <2> USE DEF Ended
  <2>0. /\ runStatus \in [Runs -> RunStatuses] /\ stepStatus \in [Steps -> StepStatuses]
        /\ \A s \in StepsOf(r) : s \in Steps /\ RunOf[s] = r /\ ~R!InProgress(s)
    BY <1>1 DEF DispatchInv, Types, StepsOf, R!InProgress
  <2>1. ASSUME NEW q \in Runs, R!Start(q) \/ R!End(q)
        PROVE  /\ runStatus'[r] = runStatus[r]
               /\ \A s \in StepsOf(r) : stepStatus'[s] = stepStatus[s]
    <3>1. q # r
      BY <2>1 DEF R!Start, R!End
    <3>2. \A s \in StepsOf(r) : stepStatus'[s] = stepStatus[s]
      BY <2>0, <2>1, <3>1 DEF R!Start, R!End
    <3>3. runStatus'[r] = runStatus[r]
      BY <2>0, <2>1, <3>1 DEF R!Start, R!End
    <3> QED
      BY <3>2, <3>3
  <2>2. ASSUME NEW t \in Steps, R!Begin(t) \/ R!Finish(t)
        PROVE  /\ runStatus'[r] = runStatus[r]
               /\ \A s \in StepsOf(r) : stepStatus'[s] = stepStatus[s]
    <3>1. t \notin StepsOf(r) /\ runStatus' = runStatus
      BY <2>0, <2>2 DEF R!Begin, R!Finish
    <3> QED
      BY <2>0, <2>2, <3>1 DEF R!Begin, R!Finish
  <2>3. ASSUME NEW S \in SUBSET Steps, R!Fail(S)
        PROVE  /\ runStatus'[r] = runStatus[r]
               /\ \A s \in StepsOf(r) : stepStatus'[s] = stepStatus[s]
    BY <2>0, <2>3 DEF R!Fail
  <2>4. CASE UNCHANGED R!vars
    BY <2>4 DEF R!vars
  <2> QED
    BY <1>1, <2>1, <2>2, <2>3, <2>4 DEF R!Next
<1>2. EndInv /\ DispatchInv /\ BatchInv /\ OwnInv /\ StepInv /\ [Next]_vars => [Final]_vars
  BY <1>1, UndisturbedRefines
<1> QED
  BY <1>2, OrderInvariant, EndInvariant, PTL DEF Spec
=============================================================================
