SPECIFICATION LoopSpec
CONSTANTS
    session = session
    global = global
    first = first
    second = second
    nested = nested
    none = none
    NoEntry = none
    Lanes <- MCLanes
    Entries <- MCEntries
    LaneOf <- MCLaneOf
    Outer <- MCOuter
    BoundedWait = {}
    Waiters <- MCWaiters
    MaxConcurrency = 1
    MaxGeneration = 2
    MaxRequests = 2
INVARIANTS
    LoopTypeOK
    CleanExitFreesLock
PROPERTIES
    ShutdownEnds
    RestartHonoured
    QueuedWorkIsKept
CHECK_DEADLOCK FALSE
