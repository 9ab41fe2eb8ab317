SPECIFICATION Spec
CONSTANTS
    TrgNames <- MCTrgNames
    MaxTriggers = 3
    TdTables <- MCTdTables
    TdShapes <- MCTdShapes
    TdLoads <- MCTdLoads
    ExprSources <- MCExprSources
    RoutineSources <- MCRoutineSources
    Tapes <- MCTapes
    MaxFuel = 6
    TypeSources <- MCTypeSources
    Dumps <- MCDumps
INVARIANTS
    DisabledStaysDisabled
    FiringOrder
    NoTriggerLost
    ScriptsRun
    ForeignKeysArrive
    NextKeyIsFresh
    GroupingKept
    SameEffects
    ValuesArrive
    DumpKept
    ErrorsStayLocal
CHECK_DEADLOCK FALSE
