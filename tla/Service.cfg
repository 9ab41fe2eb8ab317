SPECIFICATION Spec
CONSTANTS
    m1 = m1
    m2 = m2
    p1 = p1
    p2 = p2
    v1 = v1
    v2 = v2
    w1 = w1
    w2 = w2
    g1 = g1
    g2 = g2
    i1 = i1
    s1 = s1
    q1 = q1
    o1 = o1
    o2 = o2
    c1 = c1
    c2 = c2
    old1 = old1
    old2 = old2
    new1 = new1
    new2 = new2
    new3 = new3
    Migrators = {m1, m2}
    Files = {old1, old2, new1, new2, new3}
    FileVersion <- MCFileVersion
    Embedded <- MCEmbedded
    HasDown = {old1, old2, new2, new3}
    Nobody = Nobody
    MaxStarts = 4
    Publishers = {p1, p2}
    Viewers = {v1, v2}
    MaxEvents = 2
    ChanCap = 1
    ReplayLimit = 1
    Workers = {w1, w2}
    Migs = {g1, g2}
    InstanceOf <- MCInstanceOf
    MaxJobs = 3
    Schemas = {s1}
    Prereqs = {q1}
    Overrides = {o1, o2}
    NoOverrides = NoOverrides
    Starters = {c1, c2}
    MaxEdits = 2
    MaxPlans = 2
    MaxAcks = 2
INVARIANTS
    LedgerTellsSchema
    NoSendOnClosed
    StreamHasNoGap
    PoolsUsable
    LaunchedWithConsent
PROPERTIES
    ScriptsInOrder
    MigratorsFinish
    UserStateSurvives
CHECK_DEADLOCK FALSE
