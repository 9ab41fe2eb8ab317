SPECIFICATION RtSpec
CONSTANTS
    RoutineSources <- MCRoutineSources
    Tapes <- MCTapes
    MaxFuel = 6
INVARIANTS
    NamedHandlersFire
CHECK_DEADLOCK FALSE
