SPECIFICATION TrgSpec
CONSTANTS
    TrgNames <- MCCapitals
    MaxTriggers = 2
INVARIANTS
    OrderInEveryCase
CHECK_DEADLOCK FALSE
