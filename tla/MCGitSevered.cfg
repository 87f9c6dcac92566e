SPECIFICATION Spec
CONSTANTS
    t1 = t1
    t2 = t2
    k1 = k1
    k2 = k2
    r1 = r1
    r2 = r2
    commit = commit
    push = push
    ToolUse <- MCOneToolUse
    Op <- MCOp
    Publication <- MCPublication
    Token <- MCToken
    Runner <- MCOneRunner
    Altered = Altered
    Ambiguous = Ambiguous
    NoGrant = NoGrant
    NoPermission = NoPermission
    NoTicket = NoTicket
    NoToken = NoToken
    NoWaiting = NoWaiting
    NoDirect = NoDirect
    Requests <- MCRequests
    MaxTurn = 2
    MaxMishaps = 0
SYMMETRY MCSymmetry
PROPERTY ContinuationKeepsReservations
CHECK_DEADLOCK FALSE
