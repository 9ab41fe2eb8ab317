SPECIFICATION FairSpec
CONSTANTS
    j1 = j1
    j2 = j2
    w1 = w1
    w2 = w2
    Jobs <- MCJobs
    Workers <- MCWorkers
    MaxAttempts = 3
    NoJob = NoJob
    Nobody = Nobody
    NoRange = NoRange
    Keys <- MCKeys
    Tables <- MCTables
    Kind = "oracle"
    StableScan = TRUE
    BatchSize = 2
    MaxInt = 4
    MaxExact = 2
    MayOutlive = FALSE
    MaxMishaps = 2
INVARIANTS
    ExactCopy
    ValidatedCopy
    KeysPartitioned
PROPERTIES
    RangeCopySucceeds
