SPECIFICATION Spec
CONSTANTS
    a1 = a1
    a2 = a2
    a3 = a3
    Agent <- MCAgent
    Unnamed <- MCUnnamed
    NoAgent = NoName
    MaxCompactions = 1
    MaxTurn = 2
    MaxMishaps = 2
INVARIANT TypeOK
INVARIANT LedgerCoversRunning
INVARIANT StaleIsExplained
PROPERTY QuietStopIsClean
PROPERTY LedgerDrains
PROPERTY TurnEnds
CHECK_DEADLOCK FALSE
