SPECIFICATION Spec
CONSTANTS
    t1 = t1
    t2 = t2
    t3 = t3
    w1 = w1
    w2 = w2
    NoToken = NoToken
    NoWorker = NoWorker
    Token <- MCToken
    Order <- MCOrder
    Worker <- MCWorker
    Left <- MCLeft
    Stuck <- MCStuck
    ScanLimit = 2
    DirectoryLimit = 2
    Budget = 2
    RecordLimit = 2
    MaxDeaths = 1
    MaxMishaps = 1
INVARIANT TypeOK
PROPERTY LiveKept
PROPERTY UsableKept
PROPERTY LeftoversSwept
PROPERTY RecordsSwept
CHECK_DEADLOCK FALSE
