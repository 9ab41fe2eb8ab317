SPECIFICATION FairSpec
CONSTANTS
    r1 = r1
    w1 = w1
    w2 = w2
    ddl = ddl
    copy = copy
    fk = fk
    Jobs <- FourJobs
    Workers <- MCWorkers
    MaxAttempts = 1
    NoJob = NoJob
    Nobody = Nobody
    NoStep = NoStep
    Runs <- MCRuns
    Steps <- TwoSteps
    RunOf <- MCRunOf
    Deps <- MCDeps
    Level <- MCLevel
    NBatches <- MCNBatches
    Faulty = {}
    MayOutlive = FALSE
    Lossy = {}
    Modes = {"auto"}
    Operations = {}
    MaxCalls = 0
    MaxCrashes = 1
PROPERTIES
    DeadBatchEndsStep
CHECK_DEADLOCK FALSE
