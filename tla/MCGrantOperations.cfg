SPECIFICATION Spec
CONSTANTS
    A = A
    B = B
    x = x
    y = y
    main = main
    topic = topic
    all = all
    one = one
    NoScope = NoScope
    NoBranch = NoBranch
    NoTarget = NoTarget
    NoGrant = NoGrant
    NoCommand = NoCommand
    NoPrompt = NoPrompt
    Scope <- MCScope
    Local = {"add"}
    Branch <- MCBranch
    Target <- MCTarget
    Text <- MCText
    Prompts <- MCPrompts
    Resumptions <- MCResumptions
INVARIANT ReservedAsDeclared
INVARIANT CompleteWhenDone
CHECK_DEADLOCK FALSE
