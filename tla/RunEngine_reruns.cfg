SPECIFICATION Spec
CONSTANTS
    r1 = r1
    r2 = r2
    w1 = w1
    w2 = w2
    ddl = ddl
    copy = copy
    fk = fk
    copy2 = copy2
    fk2 = fk2
    Jobs <- EightJobs
    Workers <- MCWorkers
    MaxAttempts = 1
    NoJob = NoJob
    Nobody = Nobody
    NoStep = NoStep
    Runs <- EitherRun
    Steps <- StepsOfEither
    RunOf <- RunOfEither
    Deps <- DepsOfEither
    Level <- LevelOfEither
    NBatches <- BatchesOfEither
    Faulty = {copy, fk}
    MayOutlive = FALSE
    Lossy = {}
    Modes = {"auto", "manual"}
    Operations = {"play", "replay"}
    MaxCalls = 2
    MaxCrashes = 0
INVARIANTS
    RunningStepHasWork
CHECK_DEADLOCK FALSE
ACTION_CONSTRAINT Reruns
SYMMETRY Symmetry
