SPECIFICATION Spec
CONSTANTS
    session = session
    global = global
    e1 = e1
    e2 = e2
    e3 = e3
    e4 = e4
    none = none
    w1 = w1
    NoEntry = none
    Lanes <- MCLanes
    Entries <- MCEntries
    LaneOf <- MCLaneOf
    Outer <- MCOuter
    BoundedWait <- MCBoundedWait
    Waiters <- MCWaiters
    MaxConcurrency = 2
    MaxGeneration = 1
INVARIANTS
    InItsPlace
    TypeOK
    WorkConserving
    WaitersHonest
PROPERTIES
    StartsWithinLimit
    StartsInOrder
    ResetsFreeLanes
