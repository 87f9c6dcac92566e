SPECIFICATION Spec
CONSTANTS
    u1 = u1
    u2 = u2
    unsafe = unsafe
    main = main
    topic = topic
    o1 = o1
    o2 = o2
    HEAD = HEAD
    NoUrl = NoUrl
    NoOid = NoOid
    NoTicket = NoTicket
    NoReceipt = NoReceipt
    NoRewrite = NoRewrite
    Url <- MCUrl
    Safe <- MCSafe
    Branch <- MCBranch
    Oid <- MCOid
    Budget = 3
    Ceiling = 2
    MaxChanges = 3
SYMMETRY MCSymmetry
INVARIANT TypeOK
INVARIANT PushedAsApproved
INVARIANT ReceiptTruthful
PROPERTY DriftStops
PROPERTY UpstreamVerified
CHECK_DEADLOCK FALSE
