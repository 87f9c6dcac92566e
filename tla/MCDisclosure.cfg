SPECIFICATION Spec
CONSTANTS
    t1 = t1
    t2 = t2
    clone = clone
    build = build
    remove = remove
    upload = upload
    gClone = gClone
    gBuild = gBuild
    gRemove = gRemove
    gUpload = gUpload
    network = network
    delete = delete
    d1 = d1
    Downloaded = Downloaded
    NoCall = NoCall
    NoCheckout = NoCheckout
    NoPermission = NoPermission
    NoClone = NoClone
    NoDisclosure = NoDisclosure
    ToolUse <- MCToolUse
    Call <- MCCall
    Digest <- MCDigest
    DigestOf <- MCDigestOf
    Danger <- MCDanger
    Code <- MCCode
    Lane <- MCLane
    Checkout <- MCCheckout
    CloneTo <- MCCloneTo
    Automatic <- MCAutomatic
    Touches <- MCTouches
    Outbound <- MCOutbound
    Named <- MCNamed
    MaxTurn = 2
    MaxHooks = 3
SYMMETRY MCSymmetry
INVARIANT DisclosedOnce
CHECK_DEADLOCK FALSE
