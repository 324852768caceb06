SPECIFICATION Spec
CONSTANTS
    first = first
    second = second
    third = third
    before = before
    after = after
    reset = reset
    NoOp = NoOp
    NoId = NoId
    Ops <- MCOps
    Ids <- MCIds
    Waiters <- MCWaiters
INVARIANTS
    OneRegistered
    IdsLead
    WaiterHasOwner
    AbortReachesBackend
PROPERTIES
    ToldWhenIdle
SYMMETRY MCSymmetry
CHECK_DEADLOCK FALSE
