SPECIFICATION FairSpec
CONSTANTS
    p1 = p1
    p2 = p2
    a = a
    b = b
    Content <- MCContent
    Default <- MCDefault
    Raise = Raise
    Keep = Keep
    Remove = Remove
    Absent = Absent
    Damaged = Damaged
    Spoiled = Spoiled
    NoCall = NoCall
    NoReply = NoReply
    Failed = Failed
    Free = Free
    NoTemp = NoTemp
    Partial = Partial
    Client <- MCClient
    Operation <- MCOperation
    MaxCrashes = 2
INVARIANT TypeOK
INVARIANT SnapshotCurrent
INVARIANT TempsAccounted
PROPERTY DamageKept
PROPERTY RegisterSpec
PROPERTY EveryCallEnds
