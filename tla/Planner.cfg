SPECIFICATION FairSpec
CONSTANTS
    t1 = t1
    t2 = t2
    h1 = h1
    v1 = v1
    v2 = v2
    r1 = r1
    Tables <- MCTables
    History <- MCHistory
    Views <- MCViews
    Routines <- MCRoutines
    Skips = {"off", "build"}
    MinTables = 1
    NoTarget = NoTarget
INVARIANTS
    NeedsMet
    LevelsFollowDeps
PROPERTIES
    PlanCompletes
CHECK_DEADLOCK FALSE
