SPECIFICATION FairSpec
CONSTANTS
    r1 = r1
    w1 = w1
    w2 = w2
    ddl = ddl
    copy = copy
    fk = fk
    Jobs <- FiveJobs
    Workers <- MCWorkers
    MaxAttempts = 2
    NoJob = NoJob
    Nobody = Nobody
    NoStep = NoStep
    Runs <- MCRuns
    Steps <- ThreeSteps
    RunOf <- MCRunOf
    Deps <- MCDeps
    Level <- MCLevel
    NBatches <- MCNBatches
    Faulty = {ddl, copy, fk}
    MayOutlive = FALSE
    Lossy = {}
    Modes = {"auto"}
    Operations = {}
    MaxCalls = 0
    MaxCrashes = 0
INVARIANTS
    DependencyOrder
    SucceededRunIsComplete
PROPERTIES
    QueueSpec
    RunSpec
    RunTerminates
CHECK_DEADLOCK FALSE
