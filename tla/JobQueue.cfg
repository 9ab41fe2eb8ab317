SPECIFICATION FairSpec
CONSTANTS
    j1 = j1
    j2 = j2
    w1 = w1
    w2 = w2
    Jobs <- MCJobs
    Workers <- MCWorkers
    MaxAttempts = 2
    NoJob = NoJob
    Nobody = Nobody
INVARIANTS
    AttemptBudget
    ExclusiveClaim
PROPERTIES
    SucceededIsFinal
    Settles
CHECK_DEADLOCK FALSE
