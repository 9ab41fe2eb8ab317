---------------------------- MODULE MigrationRun ----------------------------
(***************************************************************************)
(* What the runs of a migration show to a user who starts them and watches *)
(* (tables runs and steps): an abstract specification.  A step makes       *)
(* progress only while its run is running, after the steps it depends on   *)
(* have succeeded, and ends once; a run ends when none of its steps can    *)
(* make progress, and nothing changes after that.                          *)
(*                                                                         *)
(* There are no jobs, workers, batches, attempts or loops here.  RunEngine *)
(* implements this as long as nobody interferes with the run.              *)
(***************************************************************************)
CONSTANTS
    Runs,          \* the runs of one migration
    Steps,         \* the steps of all runs
    RunOf,         \* steps.run_id
    Deps           \* steps.depends_on

VARIABLES
    runStatus,     \* runs.status
    stepStatus     \* steps.status

vars == <<runStatus, stepStatus>>

Init ==
    /\ runStatus = [r \in Runs |-> "none"]
    /\ stepStatus = [s \in Steps |-> "none"]

\* It is the step's turn.
InProgress(s) ==
    /\ runStatus[RunOf[s]] = "running"
    /\ stepStatus[s] \in {"pending", "running"}
    /\ \A d \in Deps[s] : stepStatus[d] = "succeeded"

\* At most one run at a time.
Start(r) ==
    /\ runStatus[r] = "none"
    /\ \A o \in Runs : runStatus[o] # "running"
    /\ runStatus' = [runStatus EXCEPT ![r] = "running"]
    /\ stepStatus' = [s \in Steps |-> IF RunOf[s] = r THEN "pending" ELSE stepStatus[s]]

Begin(s) ==
    /\ InProgress(s) /\ stepStatus[s] = "pending"
    /\ stepStatus' = [stepStatus EXCEPT ![s] = "running"]
    /\ UNCHANGED runStatus

\* A step may end without having shown as running: that statement may get lost.
Finish(s) ==
    /\ InProgress(s)
    /\ stepStatus' = [stepStatus EXCEPT ![s] = "succeeded"]
    /\ UNCHANGED runStatus

\* The supervisor fails steps together.
Fail(S) ==
    /\ \A s \in S : InProgress(s)
    /\ stepStatus' = [s \in Steps |-> IF s \in S THEN "failed" ELSE stepStatus[s]]
    /\ UNCHANGED runStatus

\* A run fails when a step of it has failed and no other can go on.
Outcome(r) ==
    {v \in {"succeeded", "failed"} :
        \/ v = "succeeded" /\ \A s \in Steps : RunOf[s] = r => stepStatus[s] = "succeeded"
        \/ /\ v = "failed"
           /\ \E s \in Steps : RunOf[s] = r /\ stepStatus[s] = "failed"
           /\ \A s \in Steps : RunOf[s] = r => ~InProgress(s)}

End(r) ==
    /\ runStatus[r] = "running"
    /\ \E v \in Outcome(r) : runStatus' = [runStatus EXCEPT ![r] = v]
    /\ UNCHANGED stepStatus

Next ==
    \/ \E r \in Runs : Start(r) \/ End(r)
    \/ \E s \in Steps : Begin(s) \/ Finish(s)
    \/ \E S \in SUBSET Steps : Fail(S)

Spec == Init /\ [][Next]_vars
=============================================================================
